---- MODULE Spec2Model ----
(***************************************************************************)
(* A model of arc-mcp's sidebar document engine (src/src/arc.ts and the    *)
(* later revision of the same file with the nested listTabs and            *)
(* createWorkspace).                                                       *)
(*                                                                         *)
(* Encoding.  Every JavaScript string is a TLA+ string; "" stands for the  *)
(* falsy values "", null and undefined of a string-valued field.  A slot   *)
(* of one of the string-or-object lists is a record whose field `type` is  *)
(* the result of `typeof`: [type |-> "string", id |-> s] for a bare token  *)
(* and [type |-> "object", ...] for a record.  An optional list is         *)
(* [present |-> BOOLEAN, value |-> Seq].  The creation timestamps of item  *)
(* and model records (createdAt, timeLastActiveAt, lastChangeDate) and the *)
(* fields profile, newContainerIDs, isUnread and savedMuteStatus are never *)
(* read by any operation and are left out; the stamp of the remote         *)
(* ordered-space list is kept.                                             *)
(***************************************************************************)
EXTENDS Integers, Sequences, FiniteSets, TLC

\* ---------------------------------------------------------------- bounds
\* number of identifiers randomUUID hands out in one behaviour
MaxNewIds == 3
\* last value of the millisecond clock
MaxTime == 1
\* depth of the JavaScript call stack available to buildTree
MaxDepth == 3

VARIABLES
  file,      \* StorableSidebar.json: [st |-> "ok" | "missing" | "unparsable", doc |-> Document]
  backups,   \* the directory's backup files: timestamp -> file content, NoFile where none
  now,       \* Date.now()
  nextId,    \* number of identifiers drawn from randomUUID so far
  result,    \* what the last finished call gave its caller
  call,      \* a call in progress between its load and its save (interleaved runs only)
  hist       \* what the calls so far created and deleted (history, never read by an operation)

vars == <<file, backups, now, nextId, result, call, hist>>

\* ------------------------------------------------------------ small helpers
Min(S) == CHOOSE x \in S : \A y \in S : x <= y

\* index of the first element of seq that satisfies P, 0 when there is none
FirstIndex(seq, P(_)) ==
  LET S == {i \in 1..Len(seq) : P(seq[i])}
  IN IF S = {} THEN 0 ELSE Min(S)

\* index of the last element of seq that satisfies P, 0 when there is none
LastIndex(seq, P(_)) ==
  LET S == {i \in 1..Len(seq) : P(seq[i])}
  IN IF S = {} THEN 0 ELSE CHOOSE x \in S : \A y \in S : y <= x

\* seq[i] of a JavaScript string array: undefined (falsy) past the end
At(seq, i) == IF i >= 1 /\ i <= Len(seq) THEN seq[i] ELSE ""

Range(seq) == {seq[i] : i \in 1..Len(seq)}

\* a generator that has two identifiers to give
randomUUIDOfTwo(k) == "N" \o ToString(k % 2)

\* randomUUID().toUpperCase(): the k-th identifier drawn, never drawn before
randomUUID(k) == "N" \o ToString(k)

\* ------------------------------------------------------------ record shapes
Token(id) == [type |-> "string", id |-> id]

IsString(x) == x.type = "string"
IsObject(x) == x.type = "object"

SpaceObject(id, title, containerIDs, emoji, icon, windowTheme) ==
  [type |-> "object", id |-> id, title |-> title, containerIDs |-> containerIDs,
   emoji |-> emoji, icon |-> icon, windowTheme |-> windowTheme]

\* tab / itemContainer: whether data.tab / data.itemContainer is present
ItemObject(id, title, parentID, childrenIds, originatingDevice, tab, savedURL, savedTitle, itemContainer, spaceItems) ==
  [type |-> "object", id |-> id, title |-> title, parentID |-> parentID,
   childrenIds |-> childrenIds, originatingDevice |-> originatingDevice,
   tab |-> tab, savedURL |-> savedURL, savedTitle |-> savedTitle,
   itemContainer |-> itemContainer, spaceItems |-> spaceItems]

\* sidebarSyncState.spaceModels record
LocalModel(value) == [type |-> "object", value |-> value]

\* firebaseSyncState.syncData.spaceModels / items record
RemoteRecord(id, lastChangedDevice, value) ==
  [type |-> "object", id |-> id, lastChangedDevice |-> lastChangedDevice, value |-> value]

Absent == [present |-> FALSE, value |-> <<>>]
Present(seq) == [present |-> TRUE, value |-> seq]

\* firebaseSyncState.syncData.orderedSpaceIDs: the object, its optional value, its stamp
AbsentOrdered ==
  [present |-> FALSE, hasValue |-> FALSE, value |-> <<>>,
   lastChangeDate |-> 0, lastChangedDevice |-> ""]

SidebarData(spaces, items, localOrdered, localModels, remoteOrdered, remoteModels, remoteItems) ==
  [spaces |-> spaces, items |-> items,
   localOrderedSpaceIDs |-> localOrdered, localSpaceModels |-> localModels,
   orderedSpaceIDs |-> remoteOrdered, spaceModels |-> remoteModels, syncItems |-> remoteItems]

EmptyData == SidebarData(<<>>, <<>>, Absent, Absent, AbsentOrdered, Absent, Absent)

NoFile == [st |-> "missing", doc |-> EmptyData]
Garbage == [st |-> "unparsable", doc |-> EmptyData]

\* ------------------------------------------------------------ DocumentStore
Parsable(f) == f.st = "ok"

\* JSON.parse(readFileSync(...)): defined when the file exists and parses
loadSidebar(f) == f.doc

\* writeFileSync(SIDEBAR_FILE, JSON.stringify(data)): the whole file is replaced
saveSidebar(data) == [st |-> "ok", doc |-> data]

\* copyFileSync(SIDEBAR_FILE, backup.<Date.now()>.json): a file of the same
\* name is overwritten
createBackup(bk, f, t) == [bk EXCEPT ![t] = f]

\* ------------------------------------------------------- IdentifierAllocator
\* a scan without the break: the tag of the last item that carries one
getDeviceIdLastItem(data) ==
  LET recorded == IF data.orderedSpaceIDs.present
                  THEN data.orderedSpaceIDs.lastChangedDevice ELSE ""
      i == LastIndex(data.items, LAMBDA it : IsObject(it) /\ it.originatingDevice # "")
  IN IF recorded # "" THEN recorded
     ELSE IF i # 0 THEN data.items[i].originatingDevice
     ELSE ""

getDeviceId(data) ==
  LET recorded == IF data.orderedSpaceIDs.present
                  THEN data.orderedSpaceIDs.lastChangedDevice ELSE ""
      i == FirstIndex(data.items, LAMBDA it : IsObject(it) /\ it.originatingDevice # "")
  IN IF recorded # "" THEN recorded
     ELSE IF i # 0 THEN data.items[i].originatingDevice
     ELSE ""

\* ------------------------------------------------------------ SpaceRegistry
\* containerIDs.filter(id => id !== "pinned" && id !== "unpinned")
structuralIds(containerIDs) ==
  SelectSeq(containerIDs, LAMBDA id : id # "pinned" /\ id # "unpinned")

\* a scan without the break: the last match wins
findSpaceLast(spaces, spaceNameOrId) ==
  LastIndex(spaces, LAMBDA s : IsObject(s) /\ (s.id = spaceNameOrId \/ s.title = spaceNameOrId))

\* the scan of deleteSpace, addTab and the flat listTabs: index of the first
\* record whose id or title is the argument, 0 when none
findSpace(spaces, spaceNameOrId) ==
  FirstIndex(spaces, LAMBDA s : IsObject(s) /\ (s.id = spaceNameOrId \/ s.title = spaceNameOrId))

listSpacesView(data) ==
  LET wellFormed == SelectSeq(data.spaces, LAMBDA s : IsObject(s) /\ s.id # "" /\ s.title # "")
  IN [i \in 1..Len(wellFormed) |->
        [id |-> wellFormed[i].id, title |-> wellFormed[i].title,
         icon |-> IF wellFormed[i].emoji # "" THEN wellFormed[i].emoji ELSE wellFormed[i].icon]]

\* ------------------------------------------------- outcome of a call's body
\* what the code between createBackup() and saveSidebar() computes: an error
\* message for an early `return {success: false}`, or the generated id and
\* the document to save
Refuse(msg) == [error |-> msg, id |-> "", data |-> EmptyData, ids |-> 0]
Built(id, data, ids) == [error |-> "", id |-> id, data |-> data, ids |-> ids]

\* -------------------------------------------- MirrorSynchronizer: createSpace
\* a scan without the break: the theme of the last space that has one
findThemeLast(spaces) ==
  LET i == LastIndex(spaces, LAMBDA s : IsObject(s) /\ s.windowTheme # "")
  IN IF i = 0 THEN "" ELSE spaces[i].windowTheme

\* the windowTheme of the first space that has one, "" when none has
findTheme(spaces) ==
  LET i == FirstIndex(spaces, LAMBDA s : IsObject(s) /\ s.windowTheme # "")
  IN IF i = 0 THEN "" ELSE spaces[i].windowTheme

\* icon.includes(".")
IsSymbolName(icon) == \E i \in 1..Len(icon) : SubSeq(icon, i, i) = "."

\* a container that does not name its space
containerRecordNoSpace(id, spaceId, deviceId) ==
  ItemObject(id, "", "", <<>>, deviceId, FALSE, "", "", TRUE, "")

containerRecord(id, spaceId, deviceId) ==
  ItemObject(id, "", "", <<>>, deviceId, FALSE, "", "", TRUE, spaceId)

\* the pushes forgotten
pushNothing(list, id, record) == list

\* list.push(id); list.push(record)
pushPair(list, id, record) == list \o <<Token(id), record>>

\* steps 1..7 of createSpace
createSpaceEdit(data, spaceObj, pinnedCont, unpinnedCont, ts, deviceId) ==
  LET spaceId == spaceObj.id
  IN [data EXCEPT
        !.spaces = pushPair(@, spaceId, spaceObj),
        !.items = pushPair(pushPair(@, pinnedCont.id, pinnedCont), unpinnedCont.id, unpinnedCont),
        !.localOrderedSpaceIDs =
            IF @.present THEN Present(@.value \o <<spaceId>>) ELSE @,
        !.localSpaceModels =
            IF @.present THEN Present(pushPair(@.value, spaceId, LocalModel(spaceObj))) ELSE @,
        !.orderedSpaceIDs =
            IF @.present
            THEN [present |-> TRUE, hasValue |-> TRUE, value |-> @.value \o <<spaceId>>,
                  lastChangeDate |-> ts, lastChangedDevice |-> deviceId]
            ELSE @,
        !.spaceModels =
            IF @.present
            THEN Present(pushPair(@.value, spaceId, RemoteRecord(spaceId, deviceId, spaceObj)))
            ELSE @,
        !.syncItems =
            IF @.present
            THEN Present(pushPair(pushPair(@.value,
                                           pinnedCont.id, RemoteRecord(pinnedCont.id, deviceId, pinnedCont)),
                                  unpinnedCont.id, RemoteRecord(unpinnedCont.id, deviceId, unpinnedCont)))
            ELSE @]

\* createSpace between createBackup() and saveSidebar(); n identifiers were
\* drawn before the call
createSpaceBody(data, name, icon, n, ts) ==
  LET spaceId == randomUUID(n + 1)
      pinnedId == randomUUID(n + 2)
      unpinnedId == randomUUID(n + 3)
      deviceId == getDeviceId(data)
      theme == findTheme(data.spaces)
      spaceObj == SpaceObject(spaceId, name, <<"pinned", pinnedId, "unpinned", unpinnedId>>,
                              IF IsSymbolName(icon) THEN "" ELSE icon,
                              IF IsSymbolName(icon) THEN icon ELSE "",
                              theme)
  IN IF theme = ""
     THEN Refuse("Could not find theme template from existing spaces")
     ELSE Built(spaceId,
                createSpaceEdit(data, spaceObj,
                                containerRecord(pinnedId, spaceId, deviceId),
                                containerRecord(unpinnedId, spaceId, deviceId),
                                ts, deviceId),
                3)

\* -------------------------------------------- MirrorSynchronizer: deleteSpace
\* a removal set that also takes what is parented on a removed item
itemsToRemoveDeep(items, containerIds) ==
  LET level1 == Range(containerIds) \cup
                {items[i].id : i \in {j \in 1..Len(items) :
                    IsObject(items[j]) /\ items[j].parentID \in Range(containerIds)}}
  IN level1 \cup {items[i].id : i \in {j \in 1..Len(items) :
                    IsObject(items[j]) /\ items[j].parentID \in level1}}

\* a removal set that takes the records without a parent as well
itemsToRemoveParentless(items, containerIds) ==
  Range(containerIds) \cup
  {items[i].id : i \in {j \in 1..Len(items) :
       IsObject(items[j]) /\ (items[j].parentID = "" \/ items[j].parentID \in Range(containerIds))}}

\* the removal set: the structural ids and every record parented on one
itemsToRemove(items, containerIds) ==
  Range(containerIds) \cup
  {items[i].id : i \in {j \in 1..Len(items) :
       IsObject(items[j]) /\ items[j].parentID # "" /\ items[j].parentID \in Range(containerIds)}}

\* only the tokens go
withoutTokens(list, ids) == SelectSeq(list, LAMBDA x : IsObject(x) \/ x.id \notin ids)

\* only the records go
withoutRecords(list, ids) == SelectSeq(list, LAMBDA x : IsString(x) \/ x.id \notin ids)

\* a token or record list without the slots whose id is in ids
withoutIds(list, ids) == SelectSeq(list, LAMBDA x : x.id \notin ids)

\* a filter that tests the wrapper's id, which these records do not have:
\* the tokens go, the records stay
withoutLocalToken(list, spaceId) ==
  SelectSeq(list, LAMBDA x : IF IsString(x) THEN x.id # spaceId ELSE TRUE)

\* sidebarSyncState.spaceModels.filter: tokens by value, records by value.id
withoutLocalModel(list, spaceId) ==
  SelectSeq(list, LAMBDA x : IF IsString(x) THEN x.id # spaceId ELSE x.value.id # spaceId)

deleteSpaceEdit(data, spaceId, removal) ==
  [data EXCEPT
     !.spaces = withoutIds(@, {spaceId}),
     !.items = withoutIds(@, removal),
     !.localOrderedSpaceIDs =
         IF @.present THEN Present(SelectSeq(@.value, LAMBDA id : id # spaceId)) ELSE @,
     !.localSpaceModels =
         IF @.present THEN Present(withoutLocalModel(@.value, spaceId)) ELSE @,
     !.orderedSpaceIDs =
         IF @.present /\ @.hasValue
         THEN [@ EXCEPT !.value = SelectSeq(@, LAMBDA id : id # spaceId)]
         ELSE @,
     !.spaceModels = IF @.present THEN Present(withoutIds(@.value, {spaceId})) ELSE @,
     !.syncItems = IF @.present THEN Present(withoutIds(@.value, removal)) ELSE @]

deleteSpaceBody(data, spaceNameOrId) ==
  LET spaceIndex == findSpace(data.spaces, spaceNameOrId)
      spaceId == IF spaceIndex = 0 THEN "" ELSE data.spaces[spaceIndex].id
      containerIds == structuralIds(data.spaces[spaceIndex].containerIDs)
  IN IF spaceId = ""
     THEN Refuse("Space not found: " \o spaceNameOrId)
     ELSE Built("", deleteSpaceEdit(data, spaceId, itemsToRemove(data.items, containerIds)), 0)

\* ------------------------------------------------- MirrorSynchronizer: addTab
\* a tab that keeps the title it is given, also when it is given none
tabRecordNoDefault(tabId, containerId, deviceId, url, title) ==
  ItemObject(tabId, "", containerId, <<>>, deviceId, TRUE, url, title, FALSE, "")

tabRecord(tabId, containerId, deviceId, url, title) ==
  ItemObject(tabId, "", containerId, <<>>, deviceId,
             TRUE, url, IF title # "" THEN title ELSE url, FALSE, "")

\* the container's child list left as it is
appendChildNot(items, containerId, tabId) == items

\* the first record with id containerId gets tabId appended to its childrenIds
appendChild(items, containerId, tabId) ==
  LET i == FirstIndex(items, LAMBDA it : IsObject(it) /\ it.id = containerId)
  IN IF i = 0 THEN items
     ELSE [items EXCEPT ![i].childrenIds = Append(@, tabId)]

\* an addTab that stamps the remote ordered-space list as createSpace does
addTabEditStamped(data, tabObj, deviceId) ==
  [data EXCEPT
     !.items = appendChild(pushPair(@, tabObj.id, tabObj), tabObj.parentID, tabObj.id),
     !.orderedSpaceIDs =
         IF @.present THEN [@ EXCEPT !.lastChangeDate = @ + 1, !.lastChangedDevice = deviceId] ELSE @,
     !.syncItems =
         IF @.present
         THEN Present(pushPair(@.value, tabObj.id, RemoteRecord(tabObj.id, deviceId, tabObj)))
         ELSE @]

addTabEdit(data, tabObj, deviceId) ==
  [data EXCEPT
     !.items = appendChild(pushPair(@, tabObj.id, tabObj), tabObj.parentID, tabObj.id),
     !.syncItems =
         IF @.present
         THEN Present(pushPair(@.value, tabObj.id, RemoteRecord(tabObj.id, deviceId, tabObj)))
         ELSE @]

addTabBody(data, spaceNameOrId, url, title, pinned, n) ==
  LET spaceIndex == findSpace(data.spaces, spaceNameOrId)
      spaceId == IF spaceIndex = 0 THEN "" ELSE data.spaces[spaceIndex].id
      containerIds == structuralIds(data.spaces[spaceIndex].containerIDs)
      containerId == IF pinned THEN At(containerIds, 1) ELSE At(containerIds, 2)
      tabId == randomUUID(n + 1)
      deviceId == getDeviceId(data)
  IN IF spaceId = ""
     THEN Refuse("Space not found: " \o spaceNameOrId)
     ELSE IF containerId = ""
     THEN Refuse("Container not found for space: " \o spaceId)
     ELSE Built(tabId, addTabEdit(data, tabRecord(tabId, containerId, deviceId, url, title), deviceId), 1)

\* ---------------------------------------------- MirrorSynchronizer: deleteTab
\* the parent's child list left as it is
removeChildNot(items, parentId, tabId) == items

\* the first record with id parentId loses tabId from its childrenIds
removeChild(items, parentId, tabId) ==
  LET i == FirstIndex(items, LAMBDA it : IsObject(it) /\ it.id = parentId)
  IN IF parentId = "" \/ i = 0 THEN items
     ELSE [items EXCEPT ![i].childrenIds = SelectSeq(@, LAMBDA id : id # tabId)]

deleteTabEdit(data, tabId, parentId) ==
  [data EXCEPT
     !.items = removeChild(withoutIds(@, {tabId}), parentId, tabId),
     !.syncItems = IF @.present THEN Present(withoutIds(@.value, {tabId})) ELSE @]

\* a delete that takes an id of no record for done
deleteTabBodyLenient(data, tabId) ==
  LET i == FirstIndex(data.items, LAMBDA it : IsObject(it) /\ it.id = tabId)
  IN IF i = 0
     THEN Built("", data, 0)
     ELSE Built("", deleteTabEdit(data, tabId, data.items[i].parentID), 0)

deleteTabBody(data, tabId) ==
  LET i == FirstIndex(data.items, LAMBDA it : IsObject(it) /\ it.id = tabId)
  IN IF i = 0
     THEN Refuse("Tab not found: " \o tabId)
     ELSE Built("", deleteTabEdit(data, tabId, data.items[i].parentID), 0)

\* --------------------------------------------------- TreeBuilder: nested view
\* itemMap.get(id): the map is filled in storage order, so the last record
\* with an id is the one kept; 0 when the id has no record
itemMapGet(items, id) == LastIndex(items, LAMBDA it : IsObject(it) /\ it.id = id)

\* the container payload tested first
getItemTypeContainerFirst(item) ==
  IF item.itemContainer THEN "container"
  ELSE IF item.tab THEN "tab"
  ELSE "folder"

getItemType(item) ==
  IF item.tab THEN "tab"
  ELSE IF item.itemContainer THEN "container"
  ELSE "folder"

TabNode(item) ==
  [kind |-> "tab", id |-> item.id,
   title |-> IF item.savedTitle # "" THEN item.savedTitle
             ELSE IF item.savedURL # "" THEN item.savedURL ELSE "Untitled",
   url |-> item.savedURL, children |-> <<>>]

FolderNode(item, children) ==
  [kind |-> "folder", id |-> item.id,
   title |-> IF item.title # "" THEN item.title ELSE "Untitled",
   url |-> "", children |-> children]

\* buildTree(itemId) as a list: <<>> for null, <<node>> otherwise; expand is
\* the loop `for (const childId of ids) { child = buildTree(childId); ... }`.
\* depth is the number of stack frames still available.
RECURSIVE buildTree(_, _, _)
RECURSIVE expand(_, _, _)
buildTree(items, itemId, depth) ==
  LET i == itemMapGet(items, itemId)
  IN IF i = 0 THEN <<>>
     ELSE IF getItemType(items[i]) = "tab" THEN <<TabNode(items[i])>>
     ELSE IF getItemType(items[i]) = "folder"
     THEN <<FolderNode(items[i], expand(items, items[i].childrenIds, depth - 1))>>
     ELSE <<>>

expand(items, ids, depth) ==
  IF ids = <<>> \/ depth < 0 THEN <<>>
  ELSE buildTree(items, Head(ids), depth) \o expand(items, Tail(ids), depth)

\* whether buildTree(itemId) needs more than depth nested calls
RECURSIVE overflows(_, _, _)
overflows(items, itemId, depth) ==
  LET i == itemMapGet(items, itemId)
  IN IF depth < 0 THEN TRUE
     ELSE IF i = 0 THEN FALSE
     ELSE IF getItemType(items[i]) # "folder" THEN FALSE
     ELSE \E k \in 1..Len(items[i].childrenIds) :
             overflows(items, items[i].childrenIds[k], depth - 1)

\* a lookup that matches ids only
findTargetSpaceById(spaces, spaceNameOrId) ==
  FirstIndex(spaces, LAMBDA s : IsObject(s) /\ (spaceNameOrId = "" \/ s.id = spaceNameOrId))

\* the target space of the nested listTabs: no argument selects the first record
findTargetSpace(spaces, spaceNameOrId) ==
  FirstIndex(spaces, LAMBDA s : IsObject(s) /\
      (spaceNameOrId = "" \/ s.id = spaceNameOrId \/ s.title = spaceNameOrId))

\* childrenIds of the container record, <<>> when the id has no record
containerChildren(items, containerId) ==
  IF itemMapGet(items, containerId) = 0 THEN <<>>
  ELSE items[itemMapGet(items, containerId)].childrenIds

NoSpaceTabs == [found |-> FALSE, spaceId |-> "", spaceTitle |-> "", pinned |-> <<>>, unpinned |-> <<>>]

\* listTabs of the revision with the nested view (SpaceTabs | null)
listTabsNested(data, spaceNameOrId) ==
  LET t == findTargetSpace(data.spaces, spaceNameOrId)
      containerIDs == structuralIds(data.spaces[t].containerIDs)
  IN IF t = 0 THEN NoSpaceTabs
     ELSE [found |-> TRUE, spaceId |-> data.spaces[t].id, spaceTitle |-> data.spaces[t].title,
           pinned |-> expand(data.items, containerChildren(data.items, At(containerIDs, 1)), MaxDepth),
           unpinned |-> expand(data.items, containerChildren(data.items, At(containerIDs, 2)), MaxDepth)]

\* whether the nested listTabs exhausts the stack
listTabsOverflows(data, spaceNameOrId) ==
  LET t == findTargetSpace(data.spaces, spaceNameOrId)
      containerIDs == structuralIds(data.spaces[t].containerIDs)
      top == containerChildren(data.items, At(containerIDs, 1)) \o
             containerChildren(data.items, At(containerIDs, 2))
  IN t # 0 /\ \E k \in 1..Len(top) : overflows(data.items, top[k], MaxDepth)

\* ----------------------------------------------------- TreeBuilder: flat view
\* a map that knows the first structural container of a space only
containerToSpaceFirstOnly(spaces) ==
  LET RECURSIVE entries(_)
      entries(k) ==
        IF k > Len(spaces) THEN <<>>
        ELSE LET s == spaces[k]
                 c == structuralIds(s.containerIDs)
             IN (IF IsObject(s) /\ s.id # "" /\ s.containerIDs # <<>> /\ At(c, 1) # ""
                 THEN <<[key |-> c[1], spaceId |-> s.id, isPinned |-> TRUE]>>
                 ELSE <<>>) \o entries(k + 1)
  IN entries(1)

\* containerToSpace as the list of its set() calls, in order
containerToSpace(spaces) ==
  LET RECURSIVE entries(_)
      entries(k) ==
        IF k > Len(spaces) THEN <<>>
        ELSE LET s == spaces[k]
                 c == structuralIds(s.containerIDs)
             IN (IF IsObject(s) /\ s.id # "" /\ s.containerIDs # <<>>
                 THEN (IF At(c, 1) # "" THEN <<[key |-> c[1], spaceId |-> s.id, isPinned |-> TRUE]>> ELSE <<>>)
                      \o (IF At(c, 2) # "" THEN <<[key |-> c[2], spaceId |-> s.id, isPinned |-> FALSE]>> ELSE <<>>)
                 ELSE <<>>) \o entries(k + 1)
  IN entries(1)

\* listTabs of src/src/arc.ts (Tab[])
listTabsFlat(data, spaceNameOrId) ==
  LET map == containerToSpace(data.spaces)
      t == findSpace(data.spaces, spaceNameOrId)
      targetSpaceId == IF spaceNameOrId = "" \/ t = 0 THEN "" ELSE data.spaces[t].id
      info(it) == map[LastIndex(map, LAMBDA e : e.key = it.parentID)]
      kept == SelectSeq(data.items, LAMBDA it :
                 /\ IsObject(it) /\ it.tab /\ it.parentID # ""
                 /\ LastIndex(map, LAMBDA e : e.key = it.parentID) # 0
                 /\ (targetSpaceId = "" \/ info(it).spaceId = targetSpaceId))
  IN IF spaceNameOrId # "" /\ targetSpaceId = "" THEN <<>>
     ELSE [i \in 1..Len(kept) |->
             [id |-> kept[i].id,
              title |-> TabNode(kept[i]).title,
              url |-> kept[i].savedURL,
              location |-> IF info(kept[i]).isPinned THEN "pinned" ELSE "unpinned",
              spaceId |-> info(kept[i]).spaceId]]

\* ------------------------------------------------- the four mutating calls
\* the message of the exception loadSidebar() throws
storageError(f) ==
  IF f.st = "missing" THEN "ENOENT: no such file or directory" ELSE "Unexpected token in JSON"

Thrown(f, bk, msg) ==
  [file |-> f, backups |-> bk, thrown |-> TRUE, success |-> FALSE, id |-> "", error |-> msg, ids |-> 0]

Returned(f, bk, success, id, msg, ids) ==
  [file |-> f, backups |-> bk, thrown |-> FALSE, success |-> success, id |-> id, error |-> msg, ids |-> ids]

\* The common frame of createSpace, deleteSpace, addTab and deleteTab:
\*   data = loadSidebar(); createBackup(); <body>; saveSidebar(data); return success
\* body is what the code in between computes from the loaded document.
\* backupOk: whether copyFileSync goes through.  save: what writeFileSync does:
\* "written" (the whole text), "refused" (open fails, the file is as it was)
\* or "torn" (open truncated the file, then a write failed).

\* the backup taken after the save: a copy of the file the call wrote
transactionLateBackup(f, bk, t, backupOk, save, body) ==
  IF ~Parsable(f) THEN Thrown(f, bk, storageError(f))
  ELSE IF ~backupOk THEN Thrown(f, bk, "ENOSPC: copyfile failed")
  ELSE IF body.error # "" THEN Returned(f, createBackup(bk, f, t), FALSE, "", body.error, 0)
  ELSE IF save = "refused" THEN Thrown(f, createBackup(bk, f, t), "EACCES: permission denied")
  ELSE IF save = "torn" THEN Thrown(Garbage, createBackup(bk, Garbage, t), "ENOSPC: no space left on device")
  ELSE Returned(saveSidebar(body.data), createBackup(bk, saveSidebar(body.data), t),
                TRUE, body.id, "", body.ids)

transaction(f, bk, t, backupOk, save, body) ==
  IF ~Parsable(f) THEN Thrown(f, bk, storageError(f))
  ELSE IF ~backupOk THEN Thrown(f, bk, "ENOSPC: copyfile failed")
  ELSE IF body.error # "" THEN Returned(f, createBackup(bk, f, t), FALSE, "", body.error, 0)
  ELSE IF save = "refused" THEN Thrown(f, createBackup(bk, f, t), "EACCES: permission denied")
  ELSE IF save = "torn" THEN Thrown(Garbage, createBackup(bk, f, t), "ENOSPC: no space left on device")
  ELSE Returned(saveSidebar(body.data), createBackup(bk, f, t), TRUE, body.id, "", body.ids)

\* an exception that leaves the function
noCatch(o) == o

\* try { ... } catch (error) { return { success: false, error: error.message } }
tryCatch(o) ==
  IF o.thrown THEN [o EXCEPT !.thrown = FALSE, !.success = FALSE] ELSE o

createSpace(f, bk, t, n, name, icon, backupOk, save) ==
  tryCatch(transaction(f, bk, t, backupOk, save,
                       createSpaceBody(loadSidebar(f), name, icon, n, t)))

deleteSpace(f, bk, t, spaceNameOrId, backupOk, save) ==
  tryCatch(transaction(f, bk, t, backupOk, save,
                       deleteSpaceBody(loadSidebar(f), spaceNameOrId)))

addTab(f, bk, t, n, spaceNameOrId, url, title, pinned, backupOk, save) ==
  tryCatch(transaction(f, bk, t, backupOk, save,
                       addTabBody(loadSidebar(f), spaceNameOrId, url, title, pinned, n)))

deleteTab(f, bk, t, tabId, backupOk, save) ==
  tryCatch(transaction(f, bk, t, backupOk, save,
                       deleteTabBody(loadSidebar(f), tabId)))

\* ------------------------------------------------------------ createWorkspace
\* what copyFileSync and writeFileSync do
NoFault == [backupOk |-> TRUE, save |-> "written"]

\* the loop `for (const { url, title } of urls) addTab(spaceId, url, title, false)`:
\* st is what the calls so far left (file, backups, the clock, the number of
\* identifiers drawn, the tab ids pushed, what each addTab returned);
\* gaps[k] is the number of milliseconds that pass before the k-th addTab
\* reads the clock, ios[k] what copyFileSync and writeFileSync do in it

\* the element of a one-element set: Only({e}) is e, evaluated once
Only(S) == CHOOSE x \in S : TRUE

\* the tabs added to the pinned container
RECURSIVE createWorkspaceTabsPinned(_, _, _, _, _)
createWorkspaceTabsPinned(st, spaceId, urls, gaps, ios) ==
  IF urls = <<>> THEN st
  ELSE Only({createWorkspaceTabsPinned(
               [file |-> o.file, backups |-> o.backups, now |-> st.now + Head(gaps),
                ids |-> st.ids + o.ids,
                tabIds |-> IF o.success /\ o.id # "" THEN Append(st.tabIds, o.id) ELSE st.tabIds,
                steps |-> Append(st.steps, [success |-> o.success, id |-> o.id])],
               spaceId, Tail(urls), Tail(gaps), Tail(ios)) :
             o \in {addTab(st.file, st.backups, st.now + Head(gaps), st.ids, spaceId,
                           Head(urls).url, Head(urls).title, TRUE,
                           Head(ios).backupOk, Head(ios).save)}})

RECURSIVE createWorkspaceTabs(_, _, _, _, _)
createWorkspaceTabs(st, spaceId, urls, gaps, ios) ==
  IF urls = <<>> THEN st
  ELSE Only({createWorkspaceTabs(
               [file |-> o.file, backups |-> o.backups, now |-> st.now + Head(gaps),
                ids |-> st.ids + o.ids,
                tabIds |-> IF o.success /\ o.id # "" THEN Append(st.tabIds, o.id) ELSE st.tabIds,
                steps |-> Append(st.steps, [success |-> o.success, id |-> o.id])],
               spaceId, Tail(urls), Tail(gaps), Tail(ios)) :
             o \in {addTab(st.file, st.backups, st.now + Head(gaps), st.ids, spaceId,
                           Head(urls).url, Head(urls).title, FALSE,
                           Head(ios).backupOk, Head(ios).save)}})

\* what createWorkspace returns and leaves once createSpace has returned
\* spaceResult
createWorkspaceAfter(spaceResult, t, n, urls, gaps, ios) ==
  IF ~spaceResult.success \/ spaceResult.id = ""
  THEN [file |-> spaceResult.file, backups |-> spaceResult.backups, now |-> t,
        ids |-> n + spaceResult.ids, success |-> FALSE, id |-> "",
        error |-> IF spaceResult.error # "" THEN spaceResult.error ELSE "Failed to create space",
        tabIds |-> <<>>, steps |-> <<[success |-> spaceResult.success, id |-> spaceResult.id]>>]
  ELSE Only({[file |-> st.file, backups |-> st.backups, now |-> st.now, ids |-> st.ids,
              success |-> TRUE, id |-> spaceResult.id, error |-> "", tabIds |-> st.tabIds,
              steps |-> st.steps] :
             st \in {createWorkspaceTabs(
                       [file |-> spaceResult.file, backups |-> spaceResult.backups, now |-> t,
                        ids |-> n + spaceResult.ids, tabIds |-> <<>>,
                        steps |-> <<[success |-> spaceResult.success, id |-> spaceResult.id]>>],
                       spaceResult.id, urls, gaps, ios)}})

\* createWorkspace(name, urls, icon): createSpace, then one addTab per url;
\* io is what copyFileSync and writeFileSync do in createSpace
createWorkspaceUnder(f, bk, t, n, name, urls, icon, gaps, io, ios) ==
  Only({createWorkspaceAfter(spaceResult, t, n, urls, gaps, ios) :
        spaceResult \in {createSpace(f, bk, t, n, name, icon, io.backupOk, io.save)}})

\* createWorkspace when every copy and every write goes through
createWorkspace(f, bk, t, n, name, urls, icon, gaps) ==
  createWorkspaceUnder(f, bk, t, n, name, urls, icon, gaps, NoFault,
                       [k \in 1..Len(urls) |-> NoFault])

\* ------------------------------------------------------- the listing calls
\* no try/catch: an exception of loadSidebar() or of buildTree() leaves the function
Raises(msg) == [thrown |-> TRUE, error |-> msg, value |-> <<>>]
Gives(value) == [thrown |-> FALSE, error |-> "", value |-> value]

listSpaces(f) ==
  IF ~Parsable(f) THEN Raises(storageError(f))
  ELSE Gives(listSpacesView(loadSidebar(f)))

\* listTabs of the revision with the nested view
listTabs(f, spaceNameOrId) ==
  IF ~Parsable(f) THEN Raises(storageError(f))
  ELSE IF listTabsOverflows(loadSidebar(f), spaceNameOrId)
  THEN Raises("Maximum call stack size exceeded")
  ELSE Gives(listTabsNested(loadSidebar(f), spaceNameOrId))

\* listTabs of src/src/arc.ts
listTabsOld(f, spaceNameOrId) ==
  IF ~Parsable(f) THEN Raises(storageError(f))
  ELSE Gives(listTabsFlat(loadSidebar(f), spaceNameOrId))

\* ------------------------------------------------------------------ inputs
CreateNames == {"Personal", ""}
Icons == {"star", "square.fill"}
Urls == {"https://a"}
TabTitles == {"A"}

SpaceIds(data) == {data.spaces[i].id : i \in {j \in 1..Len(data.spaces) : IsObject(data.spaces[j])}}
SpaceTitles(data) == {data.spaces[i].title : i \in {j \in 1..Len(data.spaces) : IsObject(data.spaces[j])}}
ItemIds(data) == {data.items[i].id : i \in {j \in 1..Len(data.items) : IsObject(data.items[j])}}

\* name-or-id arguments: the names in use, the titles and ids of the document's spaces
SpaceArgs(f) == CreateNames \cup SpaceTitles(f.doc) \cup SpaceIds(f.doc)
\* tab id arguments: the ids of the document's items and one id of no item
TabArgs(f) == ItemIds(f.doc) \cup {"NOSUCH"}

\* what copyFileSync and writeFileSync do
NoFaults == {[backupOk |-> TRUE, save |-> "written"]}
Faults ==
  NoFaults \cup {[backupOk |-> FALSE, save |-> "written"],
                 [backupOk |-> TRUE, save |-> "refused"],
                 [backupOk |-> TRUE, save |-> "torn"]}

\* ----------------------------------------------------------- initial files
Device == "DEV"
WorkSpace == SpaceObject("S0", "Work", <<"pinned", "P0", "unpinned", "U0">>, "W", "", "theme0")
WorkItems ==
  <<Token("P0"), containerRecord("P0", "S0", Device),
    Token("U0"), [containerRecord("U0", "S0", Device) EXCEPT !.childrenIds = <<"T0">>],
    Token("T0"), tabRecord("T0", "U0", Device, "https://t0", "Zero")>>

\* the remote item mirror of a primary item list
mirrorOf(items) ==
  [i \in 1..Len(items) |->
     IF IsString(items[i]) THEN items[i]
     ELSE RemoteRecord(items[i].id, items[i].originatingDevice, items[i])]

\* one space "Work" with one unpinned tab.  Shape "full" has both ledgers,
\* isomorphic to the primary lists; shape "bare" has no local ledger and of
\* the remote one only the ordered-space object, without value and stamp.
WorkDoc(shape) ==
  SidebarData(
    <<Token("S0"), WorkSpace>>,
    WorkItems,
    IF shape = "full" THEN Present(<<"S0">>) ELSE Absent,
    IF shape = "full" THEN Present(<<Token("S0"), LocalModel(WorkSpace)>>) ELSE Absent,
    IF shape = "full"
    THEN [present |-> TRUE, hasValue |-> TRUE, value |-> <<"S0">>,
          lastChangeDate |-> 0, lastChangedDevice |-> Device]
    ELSE [present |-> TRUE, hasValue |-> FALSE, value |-> <<>>,
          lastChangeDate |-> 0, lastChangedDevice |-> ""],
    IF shape = "full" THEN Present(<<Token("S0"), RemoteRecord("S0", Device, WorkSpace)>>) ELSE Absent,
    IF shape = "full" THEN Present(mirrorOf(WorkItems)) ELSE Absent)

Shapes == {"full", "bare"}

InitFiles == {saveSidebar(WorkDoc(shape)) : shape \in Shapes} \cup {NoFile, Garbage}

NoCall == [stage |-> "idle"]

\* what a call gives its caller: the result object of a mutating call, the
\* view of a listing call, or an exception (thrown)
NoResult ==
  [op |-> "", thrown |-> FALSE, success |-> FALSE, id |-> "", error |-> "", value |-> <<>>]

\* history: the arguments of the last call if it succeeded, the spaces
\* createSpace made, the ids of the spaces deleteSpace removed, the tabs
\* deleteTab removed with the parent each had, the tabs addTab made, the ids of the items the
\* browser wrote between the load and the save of a call that then saved,
\* the url and title arguments of the last addTab that succeeded, what the
\* calls of the last createWorkspace returned (createSpace first)
NoHist ==
  [arg |-> "", pinned |-> FALSE, created |-> {}, deletedSpaces |-> {}, deletedTabs |-> {},
   added |-> {}, lost |-> {}, url |-> "", title |-> "", steps |-> <<>>]

Init ==
  /\ file \in InitFiles
  /\ backups = [t \in 0..MaxTime |-> NoFile]
  /\ now = 0
  /\ nextId = 0
  /\ result = NoResult
  /\ call = NoCall
  /\ hist = NoHist

\* ----------------------------------------------------------------- actions
MutResult(op, o) ==
  [op |-> op, thrown |-> o.thrown, success |-> o.success,
   id |-> o.id, error |-> o.error, value |-> <<>>]

ListResult(op, o) ==
  [op |-> op, thrown |-> o.thrown, success |-> FALSE,
   id |-> "", error |-> o.error, value |-> o.value]

\* the created space of a successful createSpace, as the new document has it
CreatedSpace(o) ==
  LET sp == o.file.doc.spaces[Len(o.file.doc.spaces)]
  IN [spaceId |-> sp.id, pinnedId |-> sp.containerIDs[2], unpinnedId |-> sp.containerIDs[4]]

\* the parentID of the first record with this id, "" when none
parentOf(data, id) ==
  LET i == FirstIndex(data.items, LAMBDA it : IsObject(it) /\ it.id = id)
  IN IF i = 0 THEN "" ELSE data.items[i].parentID

\* the record of the first item with this id
ItemRecord(data, id) ==
  data.items[FirstIndex(data.items, LAMBDA it : IsObject(it) /\ it.id = id)]

\* The four calls take their arguments from the sets they are given: spaces
\* by name, title or id (byId FALSE) or by id alone, tabs by id with one id
\* of no item (byId FALSE) or without it.
SpaceArgsOf(f, byId) == IF byId THEN SpaceIds(f.doc) ELSE SpaceArgs(f)
TabArgsOf(f, byId) == IF byId THEN ItemIds(f.doc) ELSE TabArgs(f)

\* createSpace(name, icon) for some name and icon, while fewer than limit
\* identifiers are in use
CreateSpaceCall(limit, env, names, icons) ==
  /\ call = NoCall
  /\ nextId + 3 <= limit
  /\ \E name \in names, icon \in icons, io \in env :
       LET o == createSpace(file, backups, now, nextId, name, icon, io.backupOk, io.save)
       IN /\ file' = o.file
          /\ backups' = o.backups
          /\ nextId' = nextId + o.ids
          /\ result' = MutResult("createSpace", o)
          /\ hist' = IF o.success
                     THEN [hist EXCEPT !.arg = name, !.pinned = FALSE,
                                       !.created = @ \cup {CreatedSpace(o)}]
                     ELSE [hist EXCEPT !.arg = "", !.pinned = FALSE]
  /\ UNCHANGED <<now, call>>

DeleteSpaceCall(env, byId) ==
  /\ call = NoCall
  /\ \E spaceNameOrId \in SpaceArgsOf(file, byId), io \in env :
       LET o == deleteSpace(file, backups, now, spaceNameOrId, io.backupOk, io.save)
       IN /\ file' = o.file
          /\ backups' = o.backups
          /\ result' = MutResult("deleteSpace", o)
          /\ hist' = IF o.success
                     THEN [hist EXCEPT !.arg = spaceNameOrId, !.pinned = FALSE,
                              !.deletedSpaces =
                                 @ \cup {file.doc.spaces[findSpace(file.doc.spaces, spaceNameOrId)].id}]
                     ELSE [hist EXCEPT !.arg = "", !.pinned = FALSE]
  /\ UNCHANGED <<now, nextId, call>>

\* addTab(spaceNameOrId, url, title, pinned) for some url and title of the
\* sets given; title "" is the call without a title
AddTabWith(limit, env, byId, urls, titles) ==
  /\ call = NoCall
  /\ nextId + 1 <= limit
  /\ \E spaceNameOrId \in SpaceArgsOf(file, byId), url \in urls, title \in titles,
        pinned \in BOOLEAN, io \in env :
       LET o == addTab(file, backups, now, nextId, spaceNameOrId, url, title, pinned,
                       io.backupOk, io.save)
       IN /\ file' = o.file
          /\ backups' = o.backups
          /\ nextId' = nextId + o.ids
          /\ result' = MutResult("addTab", o)
          /\ hist' = IF o.success
                     THEN [hist EXCEPT !.arg = spaceNameOrId, !.pinned = pinned,
                              !.url = url, !.title = title,
                              !.added = @ \cup {[id |-> o.id, parentID |-> parentOf(o.file.doc, o.id)]}]
                     ELSE [hist EXCEPT !.arg = "", !.pinned = FALSE]
  /\ UNCHANGED <<now, call>>

AddTabCall(limit, env, byId) == AddTabWith(limit, env, byId, Urls, TabTitles)

DeleteTabCall(env, byId) ==
  /\ call = NoCall
  /\ \E tabId \in TabArgsOf(file, byId), io \in env :
       LET o == deleteTab(file, backups, now, tabId, io.backupOk, io.save)
       IN /\ file' = o.file
          /\ backups' = o.backups
          /\ result' = MutResult("deleteTab", o)
          /\ hist' = IF o.success
                     THEN [hist EXCEPT !.arg = tabId, !.pinned = FALSE,
                              !.deletedTabs =
                                 @ \cup {[id |-> tabId, parentID |-> parentOf(file.doc, tabId)]}]
                     ELSE [hist EXCEPT !.arg = "", !.pinned = FALSE]
  /\ UNCHANGED <<now, nextId, call>>

\* a listing that takes a backup first
ListSpacesBackedUp ==
  /\ call = NoCall
  /\ result' = ListResult("listSpaces", listSpaces(file))
  /\ backups' = IF Parsable(file) THEN createBackup(backups, file, now) ELSE backups
  /\ UNCHANGED <<file, now, nextId, call, hist>>

ListSpaces ==
  /\ call = NoCall
  /\ result' = ListResult("listSpaces", listSpaces(file))
  /\ UNCHANGED <<file, backups, now, nextId, call, hist>>

ListTabs ==
  /\ call = NoCall
  /\ \E spaceNameOrId \in SpaceArgs(file) :
       result' = ListResult("listTabs", listTabs(file, spaceNameOrId))
  /\ UNCHANGED <<file, backups, now, nextId, call, hist>>

ListTabsOld ==
  /\ call = NoCall
  /\ \E spaceNameOrId \in SpaceArgs(file) \cup {""} :
       result' = ListResult("listTabsOld", listTabsOld(file, spaceNameOrId))
  /\ UNCHANGED <<file, backups, now, nextId, call, hist>>

\* a millisecond passes between two calls
Tick ==
  /\ call = NoCall
  /\ now < MaxTime
  /\ now' = now + 1
  /\ UNCHANGED <<file, backups, nextId, result, call, hist>>

\* ------------------------------------------------------------ specifications
\* Spec: the documents the four mutating calls build, one call after the
\* other, when copyFileSync and writeFileSync go through.
CreateSpace == CreateSpaceCall(MaxNewIds, NoFaults, CreateNames, Icons)
DeleteSpace == DeleteSpaceCall(NoFaults, FALSE)
AddTab == AddTabCall(MaxNewIds, NoFaults, FALSE)
DeleteTab == DeleteTabCall(NoFaults, FALSE)

Next ==
  \/ CreateSpace
  \/ DeleteSpace
  \/ AddTab
  \/ DeleteTab

Spec == Init /\ [][Next]_vars

\* SpecIO: the same calls when copyFileSync or writeFileSync may fail.
\* createSpace is called while MaxIoIds leaves room for its three identifiers,
\* addTab while fewer than MaxIoTabs identifiers were drawn.
MaxIoIds == 3
MaxIoTabs == 1

CreateSpaceIO == CreateSpaceCall(MaxIoIds, Faults, CreateNames, Icons)
DeleteSpaceIO == DeleteSpaceCall(Faults, FALSE)
AddTabIO == AddTabCall(MaxIoTabs, Faults, FALSE)
DeleteTabIO == DeleteTabCall(Faults, FALSE)

InitIO ==
  /\ Init
  /\ file \in {saveSidebar(WorkDoc("full")), NoFile, Garbage}

NextIO ==
  \/ CreateSpaceIO
  \/ DeleteSpaceIO
  \/ AddTabIO
  \/ DeleteTabIO

SpecIO == InitIO /\ [][NextIO]_vars

\* SpecRead: the listing calls between mutating calls.
CreateSpaceR == CreateSpaceCall(MaxIoIds, NoFaults, CreateNames, Icons)
DeleteSpaceR == DeleteSpaceCall(NoFaults, FALSE)
AddTabR == AddTabCall(MaxIoTabs, NoFaults, FALSE)
DeleteTabR == DeleteTabCall(NoFaults, FALSE)

NextRead ==
  \/ CreateSpaceR
  \/ DeleteSpaceR
  \/ AddTabR
  \/ DeleteTabR
  \/ ListSpaces
  \/ ListTabs
  \/ ListTabsOld

SpecRead == InitIO /\ [][NextRead]_vars

\* SpecLife: longer lives of a document, the calls naming spaces and tabs by
\* id: a space is created, gets tabs and is deleted.
MaxLifeIds == 4

CreateSpaceL == CreateSpaceCall(MaxLifeIds, NoFaults, {"Personal"}, {"star"})
DeleteSpaceL == DeleteSpaceCall(NoFaults, TRUE)
AddTabL == AddTabCall(MaxLifeIds, NoFaults, TRUE)
DeleteTabL == DeleteTabCall(NoFaults, TRUE)

InitLife ==
  /\ Init
  /\ Parsable(file)

NextLife ==
  \/ CreateSpaceL
  \/ DeleteSpaceL
  \/ AddTabL
  \/ DeleteTabL

SpecLife == InitLife /\ [][NextLife]_vars

\* SpecTwin: createSpace gives a second space the title of the first, and
\* the calls that look a space up are made with that title.
MaxTwinIds == 4

CreateSpaceT == CreateSpaceCall(MaxTwinIds, NoFaults, {"Work"}, {"star"})
DeleteSpaceT == DeleteSpaceCall(NoFaults, FALSE)
AddTabT == AddTabCall(MaxTwinIds, NoFaults, FALSE)

InitTwin ==
  /\ Init
  /\ file = saveSidebar(WorkDoc("full"))

NextTwin ==
  \/ CreateSpaceT
  \/ DeleteSpaceT
  \/ AddTabT
  \/ ListTabs

SpecTwin == InitTwin /\ [][NextTwin]_vars

\* SpecOdd: a document as the browser leaves it, with spaces the calls here
\* never make.  Space Solo has one structural container and no theme, space
\* Side has a theme of its own and no containerIDs.
MaxOddIds == 4

OddSpaces ==
  <<Token("S1"), SpaceObject("S1", "Solo", <<"pinned", "P1">>, "", "", ""),
    Token("S0"), WorkSpace,
    Token("S2"), SpaceObject("S2", "Side", <<>>, "", "", "theme2")>>

OddItems ==
  <<Token("P1"), containerRecord("P1", "S1", Device),
    Token("P0"), containerRecord("P0", "S0", Device),
    Token("U0"), containerRecord("U0", "S0", Device)>>

OddDoc == SidebarData(OddSpaces, OddItems, Absent, Absent, AbsentOrdered, Absent, Absent)

CreateSpaceO == CreateSpaceCall(MaxOddIds, NoFaults, {"Personal"}, {"star"})
DeleteSpaceO == DeleteSpaceCall(NoFaults, TRUE)
AddTabO == AddTabCall(MaxOddIds, NoFaults, TRUE)

InitOdd ==
  /\ file = saveSidebar(OddDoc)
  /\ backups = [t \in 0..MaxTime |-> NoFile]
  /\ now = 0
  /\ nextId = 0
  /\ result = NoResult
  /\ call = NoCall
  /\ hist = NoHist

NextOdd ==
  \/ CreateSpaceO
  \/ DeleteSpaceO
  \/ AddTabO

SpecOdd == InitOdd /\ [][NextOdd]_vars

\* SpecTree: a document with a tree under the unpinned container of Work: a
\* folder with a tab in it, an id of no record, a record with a container
\* payload, an empty folder and a record with both payloads.  At most
\* MaxTreeDeletes tabs are deleted, at most MaxTreeIds added.
MaxTreeIds == 1
MaxTreeDeletes == 2

folderRecord(id, title, parentID, childrenIds) ==
  ItemObject(id, title, parentID, childrenIds, Device, FALSE, "", "", FALSE, "")

TreeItems ==
  <<Token("P0"), containerRecord("P0", "S0", Device),
    Token("U0"), [containerRecord("U0", "S0", Device)
                    EXCEPT !.childrenIds = <<"F0", "GHOST", "C9", "E0", "B0">>],
    Token("F0"), folderRecord("F0", "Folder", "U0", <<"T1">>),
    Token("T1"), tabRecord("T1", "F0", Device, "https://t1", "One"),
    Token("C9"), [containerRecord("C9", "S0", Device) EXCEPT !.parentID = "U0"],
    Token("E0"), folderRecord("E0", "", "U0", <<>>),
    Token("B0"), [tabRecord("B0", "U0", Device, "https://b0", "Both") EXCEPT !.itemContainer = TRUE]>>

TreeDoc ==
  SidebarData(<<Token("S0"), WorkSpace>>, TreeItems, Absent, Absent, AbsentOrdered, Absent, Absent)

DeleteSpaceTree == DeleteSpaceCall(NoFaults, TRUE)
AddTabTree == AddTabCall(MaxTreeIds, NoFaults, TRUE)
DeleteTabTree ==
  /\ Cardinality(hist.deletedTabs) < MaxTreeDeletes
  /\ DeleteTabCall(NoFaults, TRUE)

InitTree ==
  /\ file = saveSidebar(TreeDoc)
  /\ backups = [t \in 0..MaxTime |-> NoFile]
  /\ now = 0
  /\ nextId = 0
  /\ result = NoResult
  /\ call = NoCall
  /\ hist = NoHist

NextTree ==
  \/ DeleteSpaceTree
  \/ AddTabTree
  \/ DeleteTabTree
  \/ ListTabs

SpecTree == InitTree /\ [][NextTree]_vars

\* SpecExt: the browser writes the file while a call is between its
\* loadSidebar() and its saveSidebar().  A call is three steps: the load (the
\* arguments and the loaded document are kept in call), the backup, and the
\* rest of the function up to its return.
MaxExternal == 1

\* the browser saves the document with one more tab, in the first container
\* that has children or else at the top
externalWrite(f, id) ==
  LET data == loadSidebar(f)
      i == FirstIndex(data.items, LAMBDA it : IsObject(it) /\ it.childrenIds # <<>>)
      parentId == IF i = 0 THEN "" ELSE data.items[i].id
  IN saveSidebar([data EXCEPT
       !.items = appendChild(pushPair(@, id, tabRecord(id, parentId, Device, "https://x", id)),
                             parentId, id)])

\* a reload just before the save
reloaded(c, f) == f

\* the data variable of a call: what its loadSidebar() returned
loaded(c, f) == c.data

Loaded(op, arg, icon, pinned) ==
  [stage |-> "loaded", op |-> op, arg |-> arg, icon |-> icon, pinned |-> pinned,
   data |-> file, written |-> {}]

\* const data = loadSidebar(), or the exception it throws, caught
Load(op, arg, icon, pinned) ==
  /\ call = NoCall
  /\ IF Parsable(file)
     THEN /\ call' = Loaded(op, arg, icon, pinned)
          /\ result' = NoResult
     ELSE /\ result' = MutResult(op, tryCatch(Thrown(file, backups, storageError(file))))
          /\ UNCHANGED call
  /\ UNCHANGED <<file, backups, now, nextId, hist>>

\* the calls of SpecExt name spaces and tabs by id
LoadCreateSpace ==
  /\ nextId + 3 <= MaxIoIds
  /\ Load("createSpace", "Personal", "star", FALSE)

LoadDeleteSpace == \E spaceNameOrId \in SpaceIds(file.doc) : Load("deleteSpace", spaceNameOrId, "", FALSE)

LoadAddTab ==
  /\ nextId + 1 <= MaxIoTabs
  /\ \E spaceNameOrId \in SpaceIds(file.doc), pinned \in BOOLEAN : Load("addTab", spaceNameOrId, "", pinned)

LoadDeleteTab == \E tabId \in ItemIds(file.doc) : Load("deleteTab", tabId, "", FALSE)

\* createBackup(): a copy of the file as it is now
Backup ==
  /\ call # NoCall /\ call.stage = "loaded"
  /\ backups' = createBackup(backups, file, now)
  /\ call' = [call EXCEPT !.stage = "backedUp"]
  /\ UNCHANGED <<file, now, nextId, result, hist>>

\* what the call returns, computed from its data variable
Outcome(c, f) ==
  LET d == loaded(c, f)
  IN CASE c.op = "createSpace" ->
            createSpace(d, backups, now, nextId, c.arg, c.icon, TRUE, "written")
       [] c.op = "deleteSpace" ->
            deleteSpace(d, backups, now, c.arg, TRUE, "written")
       [] c.op = "addTab" ->
            addTab(d, backups, now, nextId, c.arg, "https://a", "A", c.pinned, TRUE, "written")
       [] c.op = "deleteTab" ->
            deleteTab(d, backups, now, c.arg, TRUE, "written")

\* the rest of the function: the edits in memory, saveSidebar(data), return
Save ==
  /\ call # NoCall /\ call.stage = "backedUp"
  /\ LET o == Outcome(call, file)
     IN /\ file' = IF o.success THEN o.file ELSE file
        /\ nextId' = nextId + o.ids
        /\ result' = MutResult(call.op, o)
        /\ hist' = IF o.success THEN [hist EXCEPT !.lost = @ \cup call.written] ELSE hist
  /\ call' = NoCall
  /\ UNCHANGED <<backups, now>>

\* the browser writes the file while a call is under way
ExternalWrite ==
  /\ call # NoCall
  /\ Parsable(file)
  /\ \E k \in 1..MaxExternal :
        LET id == "X" \o ToString(k)
            used == ItemIds(file.doc) \cup hist.lost \cup call.written
        IN /\ id \notin used
           /\ \A j \in 1..(k - 1) : "X" \o ToString(j) \in used
           /\ file' = externalWrite(file, id)
           /\ call' = [call EXCEPT !.written = @ \cup {id}]
  /\ UNCHANGED <<backups, now, nextId, result, hist>>

InitExt ==
  /\ Init
  /\ file \in {saveSidebar(WorkDoc("full")), NoFile}

NextExt ==
  \/ LoadCreateSpace
  \/ LoadDeleteSpace
  \/ LoadAddTab
  \/ LoadDeleteTab
  \/ Backup
  \/ Save
  \/ ExternalWrite

SpecExt == InitExt /\ [][NextExt]_vars

\* SpecFlat: the flat listTabs on a document with two spaces, tabs in three
\* of their containers, a tab in a folder, a tab without parent and a tab
\* whose parent has no record.  At most MaxFlatDeletes tabs are deleted, at
\* most MaxFlatIds added.
MaxFlatIds == 1
MaxFlatDeletes == 1

PlaySpace == SpaceObject("S3", "Play", <<"pinned", "P3", "unpinned", "U3">>, "", "gamecontroller.fill", "theme3")

FlatItems ==
  <<Token("P0"), [containerRecord("P0", "S0", Device) EXCEPT !.childrenIds = <<"TP">>],
    Token("U0"), [containerRecord("U0", "S0", Device) EXCEPT !.childrenIds = <<"F0", "T0">>],
    Token("F0"), folderRecord("F0", "Folder", "U0", <<"T1">>),
    Token("T1"), tabRecord("T1", "F0", Device, "https://t1", "One"),
    Token("TP"), tabRecord("TP", "P0", Device, "https://tp", "Pin"),
    Token("T0"), tabRecord("T0", "U0", Device, "https://t0", "Zero"),
    Token("P3"), containerRecord("P3", "S3", Device),
    Token("U3"), [containerRecord("U3", "S3", Device) EXCEPT !.childrenIds = <<"T3">>],
    Token("T3"), tabRecord("T3", "U3", Device, "https://t3", ""),
    Token("TX"), tabRecord("TX", "", Device, "https://tx", "Loose"),
    Token("TG"), tabRecord("TG", "GHOST", Device, "https://tg", "Ghost")>>

FlatDoc ==
  SidebarData(<<Token("S0"), WorkSpace, Token("S3"), PlaySpace>>, FlatItems,
              Absent, Absent, AbsentOrdered, Absent, Absent)

DeleteSpaceFlat == DeleteSpaceCall(NoFaults, TRUE)
AddTabFlat == AddTabCall(MaxFlatIds, NoFaults, TRUE)
DeleteTabFlat ==
  /\ Cardinality(hist.deletedTabs) < MaxFlatDeletes
  /\ DeleteTabCall(NoFaults, TRUE)

InitFlat ==
  /\ file = saveSidebar(FlatDoc)
  /\ backups = [t \in 0..MaxTime |-> NoFile]
  /\ now = 0
  /\ nextId = 0
  /\ result = NoResult
  /\ call = NoCall
  /\ hist = NoHist

NextFlat ==
  \/ DeleteSpaceFlat
  \/ AddTabFlat
  \/ DeleteTabFlat
  \/ ListTabsOld

SpecFlat == InitFlat /\ [][NextFlat]_vars

\* SpecDev: documents that differ in where a device tag is found.  Shape
\* "recorded" has a tag on the remote ordered-space list and other tags on
\* the items; shape "items" has the ordered-space list without a tag, a first
\* item without a tag and two items with different tags; shape "none" has
\* no remote ledger and no tag on any item.
MaxDevIds == 4

DevShapes == {"recorded", "items", "none"}

DevItems(shape) ==
  <<Token("P0"), containerRecord("P0", "S0", IF shape = "recorded" THEN "D1" ELSE ""),
    Token("U0"), [containerRecord("U0", "S0", IF shape = "none" THEN "" ELSE "D2")
                    EXCEPT !.childrenIds = <<"T0">>],
    Token("T0"), tabRecord("T0", "U0", IF shape = "none" THEN "" ELSE "D3", "https://t0", "Zero")>>

DevDoc(shape) ==
  SidebarData(
    <<Token("S0"), WorkSpace>>,
    DevItems(shape),
    Absent,
    Absent,
    IF shape = "none" THEN AbsentOrdered
    ELSE [present |-> TRUE, hasValue |-> TRUE, value |-> <<"S0">>, lastChangeDate |-> 0,
          lastChangedDevice |-> IF shape = "recorded" THEN "REC" ELSE ""],
    Absent,
    IF shape = "none" THEN Absent ELSE Present(mirrorOf(DevItems(shape))))

CreateSpaceDev == CreateSpaceCall(MaxDevIds, NoFaults, {"Personal"}, {"star"})
AddTabDev == AddTabCall(MaxDevIds, NoFaults, TRUE)
DeleteTabDev == DeleteTabCall(NoFaults, TRUE)

InitDev ==
  /\ file \in {saveSidebar(DevDoc(shape)) : shape \in DevShapes}
  /\ backups = [t \in 0..MaxTime |-> NoFile]
  /\ now = 0
  /\ nextId = 0
  /\ result = NoResult
  /\ call = NoCall
  /\ hist = NoHist

NextDev ==
  \/ CreateSpaceDev
  \/ AddTabDev
  \/ DeleteTabDev

SpecDev == InitDev /\ [][NextDev]_vars

\* SpecTitle: addTab with and without a title, with two urls, between calls
\* of deleteTab.  The urls are non-empty: the add_tab tool takes
\* z.string().url().
MaxTitleIds == 2

TitleUrls == {"https://a", "https://b"}
OptionalTitles == {"", "A"}

AddTabTitle == AddTabWith(MaxTitleIds, NoFaults, FALSE, TitleUrls, OptionalTitles)
DeleteTabTitle == DeleteTabCall(NoFaults, TRUE)

NextTitle ==
  \/ AddTabTitle
  \/ DeleteTabTitle

SpecTitle == InitTwin /\ [][NextTitle]_vars

\* SpecBackup: the clock runs, and createWorkspace makes its calls one after
\* the other, each in the millisecond of the one before or in a later one.
MaxBackupIds == 5

\* the url lists createWorkspace is called with
WorkspaceUrls ==
  {<<>>,
   <<[url |-> "https://a", title |-> ""]>>,
   <<[url |-> "https://a", title |-> ""], [url |-> "https://b", title |-> "B"]>>}

RECURSIVE Sum(_)
Sum(seq) == IF seq = <<>> THEN 0 ELSE Head(seq) + Sum(Tail(seq))

CreateWorkspace ==
  /\ call = NoCall
  /\ \E urls \in WorkspaceUrls :
       /\ nextId + 3 + Len(urls) <= MaxBackupIds
       /\ \E gaps \in [1..Len(urls) -> 0..MaxTime] :
            /\ now + Sum(gaps) <= MaxTime
            /\ \E o \in {createWorkspace(file, backups, now, nextId, "Personal", urls, "star", gaps)} :
                  /\ file' = o.file
                  /\ backups' = o.backups
                  /\ now' = o.now
                  /\ nextId' = o.ids
                  /\ result' = [op |-> "createWorkspace", thrown |-> FALSE, success |-> o.success,
                                id |-> o.id, error |-> o.error, value |-> o.tabIds]
                  /\ hist' = IF o.success
                             THEN [hist EXCEPT !.arg = "Personal", !.pinned = FALSE,
                                      !.created = @ \cup {CreatedSpace(o)},
                                      !.added = @ \cup {[id |-> o.tabIds[k],
                                                         parentID |-> parentOf(o.file.doc, o.tabIds[k])] :
                                                        k \in 1..Len(o.tabIds)}]
                             ELSE [hist EXCEPT !.arg = "", !.pinned = FALSE]
  /\ UNCHANGED call

DeleteSpaceB == DeleteSpaceCall(NoFaults, TRUE)
DeleteTabB == DeleteTabCall(NoFaults, TRUE)

NextBackup ==
  \/ CreateWorkspace
  \/ DeleteSpaceB
  \/ DeleteTabB
  \/ Tick

SpecBackup == InitTwin /\ [][NextBackup]_vars

\* SpecInteg: the four calls on a document the engine could have built, with
\* spaces named by title or id, a second space titled like the first, and
\* deleteTab called with the ids of tabs only.
MaxIntegIds == 4

CreateSpaceG == CreateSpaceCall(MaxIntegIds, NoFaults, {"Work"}, {"star"})
DeleteSpaceG == DeleteSpaceCall(NoFaults, FALSE)
AddTabG == AddTabCall(MaxIntegIds, NoFaults, FALSE)
DeleteTabOfTab ==
  /\ DeleteTabCall(NoFaults, TRUE)
  /\ ItemRecord(file.doc, hist'.arg).tab

NextInteg ==
  \/ CreateSpaceG
  \/ DeleteSpaceG
  \/ AddTabG
  \/ DeleteTabOfTab

SpecInteg == InitLife /\ [][NextInteg]_vars

\* SpecShadow: a document in which the user gave a space the id of another
\* space for its title, and has it before that space.
MaxShadowIds == 2

ShadowSpaces ==
  <<Token("S5"), SpaceObject("S5", "S0", <<"pinned", "P5", "unpinned", "U5">>, "", "", "theme5"),
    Token("S0"), WorkSpace>>

ShadowItems ==
  <<Token("P5"), containerRecord("P5", "S5", Device),
    Token("U5"), containerRecord("U5", "S5", Device),
    Token("P0"), containerRecord("P0", "S0", Device),
    Token("U0"), [containerRecord("U0", "S0", Device) EXCEPT !.childrenIds = <<"T0">>],
    Token("T0"), tabRecord("T0", "U0", Device, "https://t0", "Zero")>>

ShadowDoc == SidebarData(ShadowSpaces, ShadowItems, Absent, Absent, AbsentOrdered, Absent, Absent)

DeleteSpaceS == DeleteSpaceCall(NoFaults, TRUE)
AddTabS == AddTabCall(MaxShadowIds, NoFaults, TRUE)

InitShadow ==
  /\ file = saveSidebar(ShadowDoc)
  /\ backups = [t \in 0..MaxTime |-> NoFile]
  /\ now = 0
  /\ nextId = 0
  /\ result = NoResult
  /\ call = NoCall
  /\ hist = NoHist

NextShadow ==
  \/ DeleteSpaceS
  \/ AddTabS
  \/ ListTabs

SpecShadow == InitShadow /\ [][NextShadow]_vars

\* SpecTrip: what is made is deleted again.  addTab is called while fewer
\* than MaxTripTabs identifiers were drawn, createSpace while MaxTripIds
\* leaves room for its three; spaces and items are named by id, the
\* containers among the items included.
MaxTripIds == 4
MaxTripTabs == 1

CreateSpaceTrip == CreateSpaceCall(MaxTripIds, NoFaults, {"Personal"}, {"star"})
DeleteSpaceTrip == DeleteSpaceCall(NoFaults, TRUE)
AddTabTrip == AddTabCall(MaxTripTabs, NoFaults, TRUE)
DeleteTabTrip == DeleteTabCall(NoFaults, TRUE)

NextTrip ==
  \/ CreateSpaceTrip
  \/ DeleteSpaceTrip
  \/ AddTabTrip
  \/ DeleteTabTrip

SpecTrip == InitLife /\ [][NextTrip]_vars

\* SpecWork: createWorkspace on a document, a missing file and a file that
\* does not parse, with copies and writes that may fail in any of its calls;
\* a failed copy or a refused write leaves the file as it was.  Spaces and
\* items are deleted by id in between.
MaxWorkIds == 5

CleanFaults == {io \in Faults : io.save # "torn"}

CreateWorkspaceIO ==
  /\ call = NoCall
  /\ \E urls \in WorkspaceUrls, io \in CleanFaults :
       /\ nextId + 3 + Len(urls) <= MaxWorkIds
       /\ \E ios \in [1..Len(urls) -> CleanFaults] :
            \E o \in {createWorkspaceUnder(file, backups, now, nextId, "Personal", urls, "star",
                                         [k \in 1..Len(urls) |-> 0], io, ios)} :
               /\ file' = o.file
               /\ backups' = o.backups
               /\ nextId' = o.ids
               /\ result' = [op |-> "createWorkspace", thrown |-> FALSE, success |-> o.success,
                             id |-> o.id, error |-> o.error, value |-> o.tabIds]
               /\ hist' = IF o.success
                          THEN [hist EXCEPT !.arg = "Personal", !.pinned = FALSE,
                                   !.steps = o.steps,
                                   !.created = @ \cup {CreatedSpace(o)},
                                   !.added = @ \cup {[id |-> o.tabIds[k],
                                                      parentID |-> parentOf(o.file.doc, o.tabIds[k])] :
                                                     k \in 1..Len(o.tabIds)}]
                          ELSE [hist EXCEPT !.arg = "", !.pinned = FALSE, !.steps = o.steps]
  /\ UNCHANGED <<now, call>>

DeleteSpaceW == DeleteSpaceCall(NoFaults, TRUE)
DeleteTabW == DeleteTabCall(NoFaults, TRUE)

NextWork ==
  \/ CreateWorkspaceIO
  \/ DeleteSpaceW
  \/ DeleteTabW

SpecWork == InitIO /\ [][NextWork]_vars

\* SpecCycle: documents the browser wrote, with a folder under the unpinned
\* container of Work: a folder holding a tab (shape "tree"), a folder whose
\* child list names the folder itself (shape "self"), and two folders each
\* naming the other (shape "ring").  At most MaxCycleDeletes items are
\* deleted, at most MaxCycleIds added.
MaxCycleIds == 1
MaxCycleDeletes == 1

CycleShapes == {"tree", "self", "ring"}

CycleItems(shape) ==
  <<Token("P0"), containerRecord("P0", "S0", Device),
    Token("U0"), [containerRecord("U0", "S0", Device) EXCEPT !.childrenIds = <<"F0">>],
    Token("F0"), folderRecord("F0", "Folder", "U0",
                              IF shape = "self" THEN <<"T1", "F0">>
                              ELSE IF shape = "ring" THEN <<"T1", "F1">> ELSE <<"T1">>),
    Token("T1"), tabRecord("T1", "F0", Device, "https://t1", "One")>> \o
  (IF shape = "ring"
   THEN <<Token("F1"), folderRecord("F1", "Inner", "F0", <<"F0">>)>>
   ELSE <<>>)

CycleDoc(shape) ==
  SidebarData(<<Token("S0"), WorkSpace>>, CycleItems(shape), Absent, Absent, AbsentOrdered, Absent, Absent)

AddTabCycle == AddTabCall(MaxCycleIds, NoFaults, TRUE)
DeleteTabCycle ==
  /\ Cardinality(hist.deletedTabs) < MaxCycleDeletes
  /\ DeleteTabCall(NoFaults, TRUE)

InitCycle ==
  /\ file \in {saveSidebar(CycleDoc(shape)) : shape \in CycleShapes}
  /\ backups = [t \in 0..MaxTime |-> NoFile]
  /\ now = 0
  /\ nextId = 0
  /\ result = NoResult
  /\ call = NoCall
  /\ hist = NoHist

NextCycle ==
  \/ AddTabCycle
  \/ DeleteTabCycle
  \/ ListTabs

SpecCycle == InitCycle /\ [][NextCycle]_vars

\* SpecBare: beside Work, a space whose record has no containerIDs (read as
\* the empty list: `spaceObj.containerIDs?.filter(...) || []`) and a space
\* whose containerIDs holds the two markers only.  Shape "full" has both
\* ledgers, shape "bare" none.
MaxBareIds == 1

BareSpaces ==
  <<Token("S0"), WorkSpace,
    Token("S7"), SpaceObject("S7", "Bare", <<>>, "", "", ""),
    Token("S8"), SpaceObject("S8", "Marks", <<"pinned", "unpinned">>, "", "", "")>>

BareDoc(shape) ==
  IF shape = "full"
  THEN SidebarData(
         BareSpaces, WorkItems,
         Present(<<"S0", "S7", "S8">>),
         Present([i \in 1..Len(BareSpaces) |->
                    IF IsString(BareSpaces[i]) THEN BareSpaces[i] ELSE LocalModel(BareSpaces[i])]),
         [present |-> TRUE, hasValue |-> TRUE, value |-> <<"S0", "S7", "S8">>,
          lastChangeDate |-> 0, lastChangedDevice |-> Device],
         Present([i \in 1..Len(BareSpaces) |->
                    IF IsString(BareSpaces[i]) THEN BareSpaces[i]
                    ELSE RemoteRecord(BareSpaces[i].id, Device, BareSpaces[i])]),
         Present(mirrorOf(WorkItems)))
  ELSE SidebarData(BareSpaces, WorkItems, Absent, Absent, AbsentOrdered, Absent, Absent)

DeleteSpaceBare == DeleteSpaceCall(NoFaults, FALSE)
AddTabBare == AddTabCall(MaxBareIds, NoFaults, FALSE)
DeleteTabBare == DeleteTabCall(NoFaults, TRUE)

InitBare ==
  /\ file \in {saveSidebar(BareDoc(shape)) : shape \in Shapes}
  /\ backups = [t \in 0..MaxTime |-> NoFile]
  /\ now = 0
  /\ nextId = 0
  /\ result = NoResult
  /\ call = NoCall
  /\ hist = NoHist

NextBare ==
  \/ DeleteSpaceBare
  \/ AddTabBare
  \/ DeleteTabBare

SpecBare == InitBare /\ [][NextBare]_vars

\* ------------------------------------------------------ views used by claims
Mutating == {"createSpace", "deleteSpace", "addTab", "deleteTab"}
Listing == {"listSpaces", "listTabs", "listTabsOld"}

\* the ids of the nodes of a list of trees, at every depth
RECURSIVE NodeIds(_)
NodeIds(nodes) ==
  IF nodes = <<>> THEN {}
  ELSE {Head(nodes).id} \cup NodeIds(Head(nodes).children) \cup NodeIds(Tail(nodes))

\* the ids of the top-level nodes
TopIds(nodes) == {nodes[i].id : i \in 1..Len(nodes)}

\* every id, token or record, of a token/record list
SlotIds(list) == {list[i].id : i \in 1..Len(list)}

\* every id of sidebarSyncState.spaceModels: tokens, and the records' values
LocalModelIds(list) ==
  {IF IsString(list[i]) THEN list[i].id ELSE list[i].value.id : i \in 1..Len(list)}

\* every id of a remote mirror: tokens, the records and the records' values
RemoteIds(list) ==
  SlotIds(list) \cup {list[i].value.id : i \in {j \in 1..Len(list) : IsObject(list[j])}}

HasItem(data, id) == id \in ItemIds(data)

\* ------------------------------------------------------------------ claims
\* C1 (as claimed): every record of the remote item mirror has the parent and
\* the ordered child list of the primary record with the same id.
C1_MirrorIsomorphic ==
  (Parsable(file) /\ file.doc.syncItems.present) =>
     \A i \in 1..Len(file.doc.syncItems.value) :
        LET m == file.doc.syncItems.value[i]
        IN (IsObject(m) /\ HasItem(file.doc, m.id)) =>
              /\ m.value.parentID = ItemRecord(file.doc, m.id).parentID
              /\ m.value.childrenIds = ItemRecord(file.doc, m.id).childrenIds

\* C3 (as claimed): right after a successful addTab, the nested listing of
\* the same space has the new tab at the top level of the requested bucket.
C3_AddedTabListed ==
  (result.op = "addTab" /\ result.success) =>
     LET view == listTabsNested(file.doc, hist.arg)
     IN /\ view.found
        /\ result.id \in TopIds(IF hist.pinned THEN view.pinned ELSE view.unpinned)

\* C4: a tab removed by a successful deleteTab is in no listing, nested or
\* flat, with or without a space argument, and the child list of its former
\* parent does not contain its id.
C4_DeletedTabGone ==
  Parsable(file) =>
    \A d \in hist.deletedTabs :
       /\ \A a \in SpaceArgs(file) \cup {""} :
             /\ d.id \notin NodeIds(listTabsNested(file.doc, a).pinned)
             /\ d.id \notin NodeIds(listTabsNested(file.doc, a).unpinned)
             /\ d.id \notin SlotIds(listTabsFlat(file.doc, a))
       /\ HasItem(file.doc, d.parentID) =>
             d.id \notin Range(ItemRecord(file.doc, d.parentID).childrenIds)

\* a deleteTab removed a tab whose parent is still there, with other children
C4_Witness ==
  /\ result.op = "deleteTab" /\ result.success
  /\ \E d \in hist.deletedTabs :
        /\ d.id = hist.arg
        /\ HasItem(file.doc, d.parentID)
        /\ ItemRecord(file.doc, d.parentID).childrenIds # <<>>

\* C5: once a space made by createSpace was removed by deleteSpace, its id and
\* the ids of its two containers are in none of the seven lists, and no item
\* of the primary list is parented on one of the containers.
C5_CreatedSpaceGone ==
  Parsable(file) =>
    \A c \in hist.created :
       c.spaceId \in hist.deletedSpaces =>
          LET gone == {c.spaceId, c.pinnedId, c.unpinnedId}
              d == file.doc
          IN /\ gone \cap SlotIds(d.spaces) = {}
             /\ gone \cap SlotIds(d.items) = {}
             /\ gone \cap Range(d.localOrderedSpaceIDs.value) = {}
             /\ gone \cap LocalModelIds(d.localSpaceModels.value) = {}
             /\ gone \cap Range(d.orderedSpaceIDs.value) = {}
             /\ gone \cap RemoteIds(d.spaceModels.value) = {}
             /\ gone \cap RemoteIds(d.syncItems.value) = {}
             /\ \A i \in 1..Len(d.items) :
                   IsObject(d.items[i]) => d.items[i].parentID \notin {c.pinnedId, c.unpinnedId}

\* a created space was deleted, with a tab that addTab had put in it, from a
\* document that has every ledger
C5_Witness ==
  /\ result.op = "deleteSpace" /\ result.success
  /\ \E c \in hist.created, a \in hist.added :
        /\ c.spaceId \in hist.deletedSpaces
        /\ a.parentID \in {c.pinnedId, c.unpinnedId}
        /\ a.id \notin {d.id : d \in hist.deletedTabs}
  /\ file.doc.localSpaceModels.present
  /\ file.doc.spaceModels.present
  /\ file.doc.syncItems.present

\* what C6 promises of a successful createSpace(title, icon)
CreatedSpaceVisible ==
  LET d == file.doc
      view == listSpacesView(d)
  IN /\ \E i \in 1..Len(view) : view[i].id = result.id /\ view[i].title = hist.arg
     /\ d.localOrderedSpaceIDs.present => result.id \in Range(d.localOrderedSpaceIDs.value)
     /\ d.localSpaceModels.present =>
           \E i \in 1..Len(d.localSpaceModels.value) :
              /\ IsObject(d.localSpaceModels.value[i])
              /\ d.localSpaceModels.value[i].value.id = result.id
              /\ d.localSpaceModels.value[i].value.title = hist.arg
     /\ d.orderedSpaceIDs.present => result.id \in Range(d.orderedSpaceIDs.value)
     /\ d.spaceModels.present =>
           \E i \in 1..Len(d.spaceModels.value) :
              /\ IsObject(d.spaceModels.value[i])
              /\ d.spaceModels.value[i].id = result.id
              /\ d.spaceModels.value[i].value.title = hist.arg

\* C6 (as claimed): after a successful createSpace(title, icon), for every
\* title, listSpaces() has an entry with the returned id and that title, and
\* every ledger structure that is present has an entry for the id.
C6_CreatedSpaceListed ==
  (result.op = "createSpace" /\ result.success) => CreatedSpaceVisible

\* C6 (amended): the same for every title that is not the empty string.
C6_NamedSpaceListed ==
  (result.op = "createSpace" /\ result.success /\ hist.arg # "") => CreatedSpaceVisible

\* a space with a title was created in a document that has every ledger
C6_Witness ==
  /\ result.op = "createSpace" /\ result.success /\ hist.arg # ""
  /\ file.doc.localOrderedSpaceIDs.present
  /\ file.doc.spaceModels.present

\* C2 (as claimed): a call of createSpace, deleteSpace, addTab or deleteTab
\* that returns success=false leaves the document file as it was.
C2_FailureLeavesFile ==
  [][(result'.op \in Mutating /\ ~result'.success) => file' = file]_vars

\* C7: when the browser wrote the file between a call's load and its save,
\* the call returns what it returns on the document it loaded, and a
\* successful one leaves that document's successor in the file: the items
\* the browser wrote in between are not in it.
C7_StaleSaveWins ==
  [][(call # NoCall /\ call.stage = "backedUp" /\ call.written # {} /\ call' = NoCall) =>
        LET o == IF call.op = "createSpace"
                 THEN createSpaceBody(call.data.doc, call.arg, call.icon, nextId, now)
                 ELSE IF call.op = "deleteSpace" THEN deleteSpaceBody(call.data.doc, call.arg)
                 ELSE IF call.op = "addTab"
                 THEN addTabBody(call.data.doc, call.arg, "https://a", "A", call.pinned, nextId)
                 ELSE deleteTabBody(call.data.doc, call.arg)
        IN /\ result'.success = (o.error = "")
           /\ result'.error = o.error
           /\ o.error = "" =>
                 /\ file' = saveSidebar(o.data)
                 /\ call.written \cap ItemIds(file'.doc) = {}]_vars

\* a call saved over what the browser wrote after the call's load
C7_Witness ==
  /\ result.op = "addTab" /\ result.success
  /\ hist.lost # {}
  /\ hist.lost \cap ItemIds(file.doc) = {}

\* C8: a mutating call that loads the document takes its backup before it
\* writes: unless copyFileSync fails, the backup holds the file as it was
\* before the call, also when the call fails afterwards; a call whose load
\* fails takes none.
C8_BackupIsOldFile ==
  [][result'.op \in Mutating =>
        IF Parsable(file) /\ result'.error # "ENOSPC: copyfile failed"
        THEN backups' = [backups EXCEPT ![now] = file]
        ELSE backups' = backups]_vars

\* a call failed in writeFileSync after the file was changed and backed up
C8_Witness ==
  /\ result.op \in Mutating /\ ~result.success
  /\ result.error = "ENOSPC: no space left on device"
  /\ Parsable(backups[now])
  /\ ItemIds(backups[now].doc) # ItemIds(WorkDoc("full"))

\* C9: createSpace, deleteSpace, addTab and deleteTab return a result and
\* never throw: success with no message (and the new id for createSpace and
\* addTab), or failure with a message.
C9_NeverRaises ==
  result.op \in Mutating =>
     /\ ~result.thrown
     /\ result.success => (result.error = "" /\ (result.op \in {"createSpace", "addTab"} => result.id # ""))
     /\ ~result.success => result.error # ""

\* a call whose backup failed returned a failure with the message
C9_Witness ==
  /\ result.op \in Mutating /\ ~result.success /\ ~result.thrown
  /\ result.error = "ENOSPC: copyfile failed"

\* C10 (as claimed): listSpaces and listTabs return to the caller also when
\* the file is missing or does not parse.
C10_ListingsReturn ==
  result.op \in Listing => ~result.thrown

\* a list made only of adjacent pairs: a token, then the record with its id
Paired(list) ==
  /\ Len(list) % 2 = 0
  /\ \A k \in 1..(Len(list) \div 2) :
        /\ IsString(list[2 * k - 1])
        /\ IsObject(list[2 * k])
        /\ list[2 * k].id = list[2 * k - 1].id

\* the same for sidebarSyncState.spaceModels, whose records carry the id in value
PairedLocal(list) ==
  /\ Len(list) % 2 = 0
  /\ \A k \in 1..(Len(list) \div 2) :
        /\ IsString(list[2 * k - 1])
        /\ IsObject(list[2 * k])
        /\ list[2 * k].value.id = list[2 * k - 1].id

\* C11: the primary space list, the primary item list, the local space-model
\* mirror, the remote space-model mirror and the remote item mirror are made
\* only of adjacent token/record pairs after every sequence of calls.
C11_PairsKept ==
  Parsable(file) =>
     /\ Paired(file.doc.spaces)
     /\ Paired(file.doc.items)
     /\ PairedLocal(file.doc.localSpaceModels.value)
     /\ Paired(file.doc.spaceModels.value)
     /\ Paired(file.doc.syncItems.value)

\* a deleteTab took a pair out of the middle of the lists of a document that
\* has the mirrors and got a space and a tab before
C11_Witness ==
  /\ result.op = "deleteTab" /\ result.success
  /\ hist.created # {} /\ hist.added # {}
  /\ file.doc.syncItems.present
  /\ \E i \in 1..Len(file.doc.items) :
        IsObject(file.doc.items[i]) /\ file.doc.items[i].id \in {a.id : a \in hist.added}

\* the space record at index i is the earliest one whose id or title is arg
Earliest(spaces, arg, i) ==
  /\ IsObject(spaces[i]) /\ (spaces[i].id = arg \/ spaces[i].title = arg)
  /\ \A j \in 1..(i - 1) : ~(IsObject(spaces[j]) /\ (spaces[j].id = arg \/ spaces[j].title = arg))

\* the nested listTabs called with arg shows the earliest space that matches
\* arg, and no space when none matches
ListsEarliest(data, arg) ==
  LET view == listTabsNested(data, arg)
  IN IF \E i \in 1..Len(data.spaces) : Earliest(data.spaces, arg, i)
     THEN /\ view.found
          /\ \E i \in 1..Len(data.spaces) :
                Earliest(data.spaces, arg, i) /\ view.spaceId = data.spaces[i].id
     ELSE ~view.found

\* a successful deleteSpace or addTab acted on the earliest space that
\* matches its argument: deleteSpace removed that record and no other,
\* addTab parented the tab on one of that space's containers
ActsOnEarliest ==
  /\ (result'.op = "deleteSpace" /\ result'.success) =>
        \E i \in 1..Len(file.doc.spaces) :
           /\ Earliest(file.doc.spaces, hist'.arg, i)
           /\ file'.doc.spaces =
                 SelectSeq(file.doc.spaces, LAMBDA x : x.id # file.doc.spaces[i].id)
  /\ (result'.op = "addTab" /\ result'.success) =>
        \E i \in 1..Len(file.doc.spaces) :
           /\ Earliest(file.doc.spaces, hist'.arg, i)
           /\ parentOf(file'.doc, result'.id) \in Range(file.doc.spaces[i].containerIDs)

\* C12 (as claimed): deleteSpace, addTab and listTabs resolve every argument
\* to the first space record, in storage order, whose id or title is the
\* argument.
C12_FirstMatchAnyArg ==
  Parsable(file) => \A arg \in SpaceArgs(file) : ListsEarliest(file.doc, arg)

\* C12 (amended): the same for every argument that is not the empty string;
\* of two spaces with one title, the calls made with the title act on the
\* earlier.
C12_FirstMatch ==
  /\ [](Parsable(file) => \A arg \in SpaceArgs(file) \ {""} : ListsEarliest(file.doc, arg))
  /\ [][ActsOnEarliest]_vars

\* deleteSpace("Work") on two spaces titled Work: the later one is left
C12_Witness ==
  /\ result.op = "deleteSpace" /\ result.success /\ hist.arg = "Work"
  /\ "S0" \in hist.deletedSpaces
  /\ \E i \in 1..Len(file.doc.spaces) :
        IsObject(file.doc.spaces[i]) /\ file.doc.spaces[i].title = "Work"

\* C13: a successful deleteSpace takes out of the primary item list the
\* slots of the space's structural container ids and of the items parented
\* on one of them, and nothing else: an item two levels below a container
\* stays, with the parent it had.
C13_SingleLevelRemoval ==
  [][(result'.op = "deleteSpace" /\ result'.success) =>
        \E i \in 1..Len(file.doc.spaces) :
           /\ Earliest(file.doc.spaces, hist'.arg, i)
           /\ LET old == file.doc.items
                  C == Range(file.doc.spaces[i].containerIDs) \ {"pinned", "unpinned"}
                  direct == {old[k].id : k \in {j \in 1..Len(old) :
                                IsObject(old[j]) /\ old[j].parentID \in C}}
              IN /\ file'.doc.items = SelectSeq(old, LAMBDA x : x.id \notin C \cup direct)
                 /\ \A k \in 1..Len(old) :
                       (IsObject(old[k]) /\ old[k].id \notin C \cup direct /\ old[k].parentID \in direct) =>
                          /\ HasItem(file'.doc, old[k].id)
                          /\ ItemRecord(file'.doc, old[k].id).parentID = old[k].parentID]_vars

\* deleteSpace left a tab whose folder it removed
C13_Witness ==
  /\ result.op = "deleteSpace" /\ result.success
  /\ hist.deletedTabs = {}
  /\ \E i \in 1..Len(file.doc.items) :
        /\ IsObject(file.doc.items[i]) /\ file.doc.items[i].tab
        /\ file.doc.items[i].parentID # ""
        /\ ~HasItem(file.doc, file.doc.items[i].parentID)

\* C14 (as claimed): a successful addTab was made on a space with two
\* structural container ids or more, and parented the tab on the first of
\* them when pinned and on the second when not; on a space with fewer,
\* addTab fails whatever pinned is.
C14_AddTabNeedsTwoContainers ==
  (result.op = "addTab" /\ result.success) =>
     \E i \in 1..Len(file.doc.spaces) :
        /\ Earliest(file.doc.spaces, hist.arg, i)
        /\ LET c == SelectSeq(file.doc.spaces[i].containerIDs,
                              LAMBDA id : id \notin {"pinned", "unpinned"})
           IN /\ Len(c) >= 2
              /\ parentOf(file.doc, result.id) = IF hist.pinned THEN c[1] ELSE c[2]

\* the records of the primary item list that carry a container payload and no tab
ContainerRecords(data) ==
  {data.items[i] : i \in {j \in 1..Len(data.items) :
      IsObject(data.items[j]) /\ data.items[j].itemContainer /\ ~data.items[j].tab}}

SpaceRecords(data) ==
  {data.spaces[i] : i \in {j \in 1..Len(data.spaces) : IsObject(data.spaces[j])}}

\* C15 (as claimed): createSpace, addTab and deleteTab remove no space record
\* and no container record; what a deleteSpace removes of them is the record
\* of its space and container records with the ids that space names.
C15_OnlyDeleteSpaceDestroys ==
  [][/\ result'.op \in {"createSpace", "addTab", "deleteTab"} =>
          /\ \A sp \in SpaceRecords(file.doc) : sp.id \in SpaceIds(file'.doc)
          /\ \A c \in ContainerRecords(file.doc) :
                \E d \in ContainerRecords(file'.doc) : d.id = c.id
     /\ (result'.op = "deleteSpace" /\ result'.success) =>
          \E i \in 1..Len(file.doc.spaces) :
             /\ Earliest(file.doc.spaces, hist'.arg, i)
             /\ SpaceIds(file.doc) \ SpaceIds(file'.doc) = {file.doc.spaces[i].id}]_vars

\* C16: createSpace succeeds exactly when a space record has a theme, and
\* then the new space has the theme of the first such record in storage
\* order; otherwise it fails with the theme message and the file is as it was.
C16_ThemeFromFirstSpace ==
  [][result'.op = "createSpace" =>
        LET old == file.doc.spaces
            themed == {i \in 1..Len(old) : IsObject(old[i]) /\ old[i].windowTheme # ""}
        IN IF themed = {}
           THEN /\ ~result'.success
                /\ result'.error = "Could not find theme template from existing spaces"
                /\ file' = file
           ELSE /\ result'.success
                /\ \E i \in themed :
                      /\ \A j \in themed : i <= j
                      /\ file'.doc.spaces[Len(file'.doc.spaces)].id = result'.id
                      /\ file'.doc.spaces[Len(file'.doc.spaces)].windowTheme = old[i].windowTheme]_vars

\* a space was created from a list whose first space has no theme and whose
\* last space has another theme than the one taken
C16_Witness ==
  /\ result.op = "createSpace" /\ result.success
  /\ file.doc.spaces[2].windowTheme = ""
  /\ \E i \in 1..Len(file.doc.spaces) :
        /\ IsObject(file.doc.spaces[i])
        /\ file.doc.spaces[i].windowTheme \notin
              {"", file.doc.spaces[Len(file.doc.spaces)].windowTheme}

\* C17: a successful createSpace appends one pair to the primary space list,
\* a record with the returned id whose containerIDs is <<"pinned", P,
\* "unpinned", U>> with P and U distinct and new, and appends to the primary
\* item list the pair of P and then the pair of U, each a container record
\* with no children and no parent that names the new space.
C17_CreatedSpaceWellFormed ==
  [][(result'.op = "createSpace" /\ result'.success) =>
        LET old == file.doc
            new == file'.doc
            sp == new.spaces[Len(new.spaces)]
            P == sp.containerIDs[2]
            U == sp.containerIDs[4]
            cP == new.items[Len(new.items) - 2]
            cU == new.items[Len(new.items)]
            IsEmptyContainer(c, id) ==
              /\ IsObject(c) /\ c.id = id
              /\ c.childrenIds = <<>> /\ c.parentID = ""
              /\ c.itemContainer /\ ~c.tab /\ c.spaceItems = sp.id
        IN /\ new.spaces = old.spaces \o <<Token(result'.id), sp>>
           /\ IsObject(sp) /\ sp.id = result'.id
           /\ sp.containerIDs = <<"pinned", P, "unpinned", U>>
           /\ Cardinality({sp.id, P, U}) = 3
           /\ {sp.id, P, U} \cap (SlotIds(old.spaces) \cup SlotIds(old.items)
                                   \cup {"", "pinned", "unpinned"}) = {}
           /\ new.items = old.items \o <<Token(P), cP, Token(U), cU>>
           /\ IsEmptyContainer(cP, P)
           /\ IsEmptyContainer(cU, U)]_vars

\* a space was created, with a symbol for its icon, after a tab was added
C17_Witness ==
  /\ result.op = "createSpace" /\ result.success
  /\ file.doc.spaces[Len(file.doc.spaces)].icon = "square.fill"
  /\ Len(file.doc.items) >= 8

\* C18: on a document that loads, deleteSpace and addTab succeed only with
\* an argument that is the id or the title of a space record, deleteTab only
\* with the id of an item record; called with another argument they return
\* success=false with the not-found message that names the argument, and
\* the file is as it was.
C18_NotFound ==
  [][/\ (Parsable(file) /\ result'.op \in {"deleteSpace", "addTab"}) =>
          IF result'.success
          THEN \E i \in 1..Len(file.doc.spaces) : Earliest(file.doc.spaces, hist'.arg, i)
          ELSE /\ file' = file
               /\ \E arg \in SpaceArgs(file) :
                     /\ \A i \in 1..Len(file.doc.spaces) : ~Earliest(file.doc.spaces, arg, i)
                     /\ result'.error = "Space not found: " \o arg
     /\ (Parsable(file) /\ result'.op = "deleteTab") =>
          IF result'.success
          THEN HasItem(file.doc, hist'.arg)
          ELSE /\ file' = file
               /\ \E tabId \in TabArgs(file) :
                     /\ ~HasItem(file.doc, tabId)
                     /\ result'.error = "Tab not found: " \o tabId]_vars

\* a deleteTab of an id of no item, after a deleteTab that removed one
C18_Witness ==
  /\ result.op = "deleteTab" /\ ~result.success
  /\ result.error = "Tab not found: NOSUCH"
  /\ hist.deletedTabs # {}

\* C19: a call of listSpaces or listTabs writes no backup and leaves the
\* document file as it is.
C19_ListingsReadOnly ==
  [][result'.op \in Listing => (file' = file /\ backups' = backups)]_vars

\* listSpaces returned the spaces of a document that a call before had saved
C19_Witness ==
  /\ result.op = "listSpaces" /\ ~result.thrown
  /\ Len(result.value) >= 1
  /\ Parsable(backups[now])

\* the child ids that the tree shows: those with a record that is a tab or
\* has no container payload
Emitted(data, ids) ==
  SelectSeq(ids, LAMBDA id :
     HasItem(data, id) /\ (ItemRecord(data, id).tab \/ ~ItemRecord(data, id).itemContainer))

\* nodes is the tree of the child list ids: one node per emitted id, in the
\* order of ids, a tab leaf for a record with a tab payload and else a folder
\* whose children are the tree of the record's child list
RECURSIVE TreeOf(_, _, _)
TreeOf(data, nodes, ids) ==
  /\ Len(nodes) = Len(Emitted(data, ids))
  /\ \A k \in 1..Len(nodes) :
        LET rec == ItemRecord(data, Emitted(data, ids)[k])
        IN /\ nodes[k].id = rec.id
           /\ IF rec.tab
              THEN nodes[k].kind = "tab" /\ nodes[k].children = <<>>
              ELSE nodes[k].kind = "folder" /\ TreeOf(data, nodes[k].children, rec.childrenIds)

\* C20: the two lists of the nested listTabs are the trees of the child
\* lists of the two containers: tab payload first, then container payload,
\* else folder (also without children); children in child-list order; ids
\* of no record skipped; no container among the nodes.
C20_TreeClassified ==
  Parsable(file) =>
     \A arg \in SpaceArgs(file) :
        LET view == listTabsNested(file.doc, arg)
            sp == file.doc.spaces[findTargetSpace(file.doc.spaces, arg)]
            c == structuralIds(sp.containerIDs)
            ChildList(id) == IF HasItem(file.doc, id) THEN ItemRecord(file.doc, id).childrenIds ELSE <<>>
        IN view.found =>
              /\ TreeOf(file.doc, view.pinned, ChildList(At(c, 1)))
              /\ TreeOf(file.doc, view.unpinned, ChildList(At(c, 2)))

\* listTabs returned the folder with its tab, the empty folder and the record
\* with both payloads, and neither the container nor the id of no record
C20_Witness ==
  /\ result.op = "listTabs" /\ ~result.thrown /\ result.value.found
  /\ [k \in 1..Len(result.value.unpinned) |-> result.value.unpinned[k].id] = <<"F0", "E0", "B0">>
  /\ "T1" \in NodeIds(result.value.unpinned)
  /\ \E k \in 1..Len(file.doc.items) : file.doc.items[k].id = "C9"

\* the space record that names id as its first or second structural
\* container, 0 when none does
SpaceOfContainer(data, id) ==
  FirstIndex(data.spaces, LAMBDA s :
     IsObject(s) /\ id \in {At(structuralIds(s.containerIDs), 1), At(structuralIds(s.containerIDs), 2)})

\* what C21 says the flat listing with argument arg returns
FlatExpected(data, arg) ==
  LET resolved == {i \in 1..Len(data.spaces) : Earliest(data.spaces, arg, i)}
      wanted == SelectSeq(data.items, LAMBDA it :
                   /\ IsObject(it) /\ it.tab
                   /\ it.parentID # ""
                   /\ SpaceOfContainer(data, it.parentID) # 0
                   /\ (arg = "" \/ SpaceOfContainer(data, it.parentID) \in resolved))
  IN [k \in 1..Len(wanted) |->
        LET sp == data.spaces[SpaceOfContainer(data, wanted[k].parentID)]
        IN [id |-> wanted[k].id,
            location |-> IF wanted[k].parentID = structuralIds(sp.containerIDs)[1]
                         THEN "pinned" ELSE "unpinned",
            spaceId |-> sp.id]]

\* C21: the flat listTabs returns the records with a tab payload whose parent
\* is the first or second structural container of a space, tagged pinned for
\* the first and unpinned for the second, with the id of that space; with a
\* space argument only those of the space it resolves to, none when it
\* resolves to no space; a tab whose parent is a folder is not returned.
C21_FlatListing ==
  Parsable(file) =>
     \A arg \in SpaceArgs(file) \cup {""} :
        LET view == listTabsFlat(file.doc, arg)
        IN /\ [k \in 1..Len(view) |->
                 [id |-> view[k].id, location |-> view[k].location, spaceId |-> view[k].spaceId]]
              = FlatExpected(file.doc, arg)
           /\ \A k \in 1..Len(view) :
                 ~(\E i \in 1..Len(file.doc.items) :
                      /\ IsObject(file.doc.items[i])
                      /\ file.doc.items[i].id = parentOf(file.doc, view[k].id)
                      /\ ~file.doc.items[i].itemContainer)

\* the flat listTabs of one space returned its pinned and its unpinned tab
\* and not the tab in the folder, which is still in the document
C21_Witness ==
  /\ result.op = "listTabsOld" /\ ~result.thrown
  /\ \E k \in 1..Len(result.value) : result.value[k].location = "pinned"
  /\ \E k \in 1..Len(result.value) : result.value[k].location = "unpinned"
  /\ \A k \in 1..Len(result.value) : result.value[k].spaceId = "S0"
  /\ "T1" \in ItemIds(file.doc) /\ "T3" \in ItemIds(file.doc)
  /\ "T1" \notin SlotIds(result.value)

\* tag is the device tag C22 promises for data: the tag recorded on the
\* remote ordered-space list when there is one; else the tag of the earliest
\* item record that carries one; else the empty string
IsDeviceTagOf(data, tag) ==
  LET tagged == {i \in 1..Len(data.items) :
                    IsObject(data.items[i]) /\ data.items[i].originatingDevice # ""}
  IN IF data.orderedSpaceIDs.present /\ data.orderedSpaceIDs.lastChangedDevice # ""
     THEN tag = data.orderedSpaceIDs.lastChangedDevice
     ELSE IF tagged # {}
     THEN \E i \in tagged : (\A j \in tagged : i <= j) /\ tag = data.items[i].originatingDevice
     ELSE tag = ""

\* the records a successful createSpace or addTab has put into new that old
\* did not have: item records, and the wrappers of the remote item mirror
NewItemRecords(old, new) ==
  {new.items[i] : i \in {j \in 1..Len(new.items) :
      IsObject(new.items[j]) /\ new.items[j].id \notin ItemIds(old)}}

NewMirrorRecords(old, new) ==
  {new.syncItems.value[i] : i \in {j \in 1..Len(new.syncItems.value) :
      IsObject(new.syncItems.value[j]) /\ new.syncItems.value[j].id \notin ItemIds(old)}}

\* C22: every item record a successful createSpace or addTab makes, its
\* wrapper in the remote item mirror and, for createSpace, the stamp of the
\* remote ordered-space list carry the device tag chosen by priority from
\* the document the call loaded.
C22_DeviceTagPriority ==
  [][(result'.op \in {"createSpace", "addTab"} /\ result'.success) =>
        /\ NewItemRecords(file.doc, file'.doc) # {}
        /\ \A r \in NewItemRecords(file.doc, file'.doc) :
              IsDeviceTagOf(file.doc, r.originatingDevice)
        /\ \A w \in NewMirrorRecords(file.doc, file'.doc) :
              /\ IsDeviceTagOf(file.doc, w.lastChangedDevice)
              /\ IsDeviceTagOf(file.doc, w.value.originatingDevice)
        /\ (result'.op = "createSpace" /\ file.doc.orderedSpaceIDs.present) =>
              IsDeviceTagOf(file.doc, file'.doc.orderedSpaceIDs.lastChangedDevice)]_vars

\* a tab got the tag of the third item: the list has no recorded tag, its
\* first item has none and the second, which had another, was deleted
C22_Witness ==
  /\ result.op = "addTab" /\ result.success
  /\ file.doc.orderedSpaceIDs.present /\ file.doc.orderedSpaceIDs.lastChangedDevice = ""
  /\ [id |-> "U0", parentID |-> ""] \in hist.deletedTabs
  /\ ItemRecord(file.doc, result.id).originatingDevice = "D3"
  /\ ItemRecord(file.doc, "P0").originatingDevice = ""

\* every id a document holds: the slots of its seven lists, the container
\* ids its spaces name, the parents and children its items name
DocIds(data) ==
  SlotIds(data.spaces) \cup SlotIds(data.items)
  \cup UNION {Range(sp.containerIDs) : sp \in SpaceRecords(data)}
  \cup UNION {Range(data.items[i].childrenIds) \cup {data.items[i].parentID} :
               i \in {j \in 1..Len(data.items) : IsObject(data.items[j])}}
  \cup Range(data.localOrderedSpaceIDs.value) \cup LocalModelIds(data.localSpaceModels.value)
  \cup Range(data.orderedSpaceIDs.value) \cup RemoteIds(data.spaceModels.value)
  \cup RemoteIds(data.syncItems.value)

\* every id the create operations so far have allocated
AllocatedIds(h) ==
  UNION {{c.spaceId, c.pinnedId, c.unpinnedId} : c \in h.created} \cup {a.id : a \in h.added}

\* C23: the three ids of a successful createSpace are pairwise distinct, the
\* id of a successful addTab is the id of the one record it adds, and none of
\* them is in the document the call loaded or was allocated by a create
\* operation before, also when what that operation made was deleted since.
C23_IdsNeverCollide ==
  [][/\ (result'.op = "createSpace" /\ result'.success) =>
          LET sp == file'.doc.spaces[Len(file'.doc.spaces)]
              ids == {sp.id, sp.containerIDs[2], sp.containerIDs[4]}
          IN /\ result'.id = sp.id
             /\ Cardinality(ids) = 3
             /\ ids \cap (DocIds(file.doc) \cup AllocatedIds(hist)) = {}
     /\ (result'.op = "addTab" /\ result'.success) =>
          /\ result'.id \notin DocIds(file.doc) \cup AllocatedIds(hist)
          /\ ItemIds(file'.doc) = ItemIds(file.doc) \cup {result'.id}]_vars

\* a tab was added after a space was created and deleted again
C23_Witness ==
  /\ result.op = "addTab" /\ result.success
  /\ \E c \in hist.created :
        c.spaceId \in hist.deletedSpaces /\ c.spaceId \notin SpaceIds(file.doc)

\* the nodes of a list of trees, at every depth
RECURSIVE Nodes(_)
Nodes(nodes) ==
  IF nodes = <<>> THEN {}
  ELSE {Head(nodes)} \cup Nodes(Head(nodes).children) \cup Nodes(Tail(nodes))

BackupCount(bk) == Cardinality({t \in DOMAIN bk : bk[t] # NoFile})

\* the number of mutating calls made in a step: createWorkspace makes one
\* createSpace and, when that succeeds, one addTab per url; a step that
\* leaves the clock alone is one call; the other steps are the clock's
CallsMade ==
  IF result'.op = "createWorkspace" /\ nextId' # nextId THEN 1 + Len(result'.value)
  ELSE IF now' = now THEN 1
  ELSE 0

\* C25 (as claimed): every mutating call that loads the document adds one
\* backup file, and no backup file of an earlier call is overwritten or
\* removed, so n calls leave n backup files more.
C25_OneBackupPerCall ==
  [][Parsable(file) =>
        /\ BackupCount(backups') = BackupCount(backups) + CallsMade
        /\ \A t \in DOMAIN backups : backups[t] # NoFile => backups'[t] = backups[t]]_vars

\* the number of times id occurs in the list ids
Occurrences(ids, id) == Cardinality({k \in 1..Len(ids) : ids[k] = id})

\* C26: in every document the calls reach, each tab record is parented on a
\* container record whose child list has the tab's id once, and each id in
\* the child list of a container record is the id of a tab record parented
\* on that container.
C26_ParentsAndChildrenAgree ==
  Parsable(file) =>
     \A i \in 1..Len(file.doc.items) :
        LET r == file.doc.items[i]
        IN IsObject(r) =>
              /\ r.tab =>
                    /\ HasItem(file.doc, r.parentID)
                    /\ ItemRecord(file.doc, r.parentID).itemContainer
                    /\ ~ItemRecord(file.doc, r.parentID).tab
                    /\ Occurrences(ItemRecord(file.doc, r.parentID).childrenIds, r.id) = 1
              /\ (r.itemContainer /\ ~r.tab) =>
                    \A k \in 1..Len(r.childrenIds) :
                       /\ HasItem(file.doc, r.childrenIds[k])
                       /\ ItemRecord(file.doc, r.childrenIds[k]).tab
                       /\ ItemRecord(file.doc, r.childrenIds[k]).parentID = r.id

\* a tab was deleted while a space made by createSpace holds a tab made by addTab
C26_Witness ==
  /\ result.op = "deleteTab" /\ result.success
  /\ \E c \in hist.created, a \in hist.added :
        /\ a.parentID \in {c.pinnedId, c.unpinnedId}
        /\ HasItem(file.doc, a.id)
        /\ a.id \in Range(ItemRecord(file.doc, a.parentID).childrenIds)

\* C27 (as claimed): in every document the calls reach, each space record
\* of the primary space list has an item record for each of its structural
\* container ids.
C27_SpacesKeepContainers ==
  Parsable(file) =>
     \A sp \in SpaceRecords(file.doc) :
        \A id \in Range(structuralIds(sp.containerIDs)) : HasItem(file.doc, id)

\* the id of the space that a call named arg acts on, as C28 has it: arg
SpaceWithId(spaces, arg) == arg

\* the indexes of the records before the record with id arg that have arg
\* for their title
Shadows(spaces, arg) ==
  {j \in 1..Len(spaces) :
      /\ IsObject(spaces[j]) /\ spaces[j].title = arg /\ spaces[j].id # arg
      /\ ~\E k \in 1..(j - 1) : IsObject(spaces[k]) /\ spaces[k].id = arg}

\* the id of the space that a call named arg acts on when records titled
\* arg come before the record with id arg: the first of them
SpaceUnlessShadowed(spaces, arg) ==
  IF Shadows(spaces, arg) = {} THEN arg ELSE spaces[Min(Shadows(spaces, arg))].id

\* a successful step of deleteSpace or addTab acted on the space with id
\* target: deleteSpace removed its record and no other, addTab
\* parented the tab on one of its containers
ActedOn(target) ==
  /\ (result'.op = "deleteSpace" /\ result'.success) =>
        SpaceIds(file.doc) \ SpaceIds(file'.doc) = {target}
  /\ (result'.op = "addTab" /\ result'.success) =>
        \E sp \in SpaceRecords(file.doc) :
           sp.id = target /\ parentOf(file'.doc, result'.id) \in Range(sp.containerIDs)

\* C28 (as claimed): the nested listTabs called with the id of a space shows
\* the space that has the id, and deleteSpace and addTab called with it act
\* on that space, whatever the other spaces are titled.
C28_IdSelectsItsSpace ==
  [][/\ (result'.op \in {"deleteSpace", "addTab"} /\ hist'.arg \in SpaceIds(file.doc)) =>
           ActedOn(SpaceWithId(file.doc.spaces, hist'.arg))
     /\ Parsable(file') =>
           \A id \in SpaceIds(file'.doc) :
              /\ listTabsNested(file'.doc, id).found
              /\ listTabsNested(file'.doc, id).spaceId = SpaceWithId(file'.doc.spaces, id)]_vars

\* C28 (amended): they act on the space that has the id unless a record
\* before it has the id for its title; then they act on the first such
\* record.
C28_IdSelectsUnlessShadowed ==
  [][/\ (result'.op \in {"deleteSpace", "addTab"} /\ hist'.arg \in SpaceIds(file.doc)) =>
           ActedOn(SpaceUnlessShadowed(file.doc.spaces, hist'.arg))
     /\ Parsable(file') =>
           \A id \in SpaceIds(file'.doc) :
              /\ listTabsNested(file'.doc, id).found
              /\ listTabsNested(file'.doc, id).spaceId = SpaceUnlessShadowed(file'.doc.spaces, id)]_vars

\* deleteSpace("S0") removed the space with id S0, after the space titled S0
\* that came before it was removed
C28_Witness ==
  /\ result.op = "deleteSpace" /\ result.success /\ hist.arg = "S0"
  /\ hist.deletedSpaces = {"S5", "S0"}
  /\ hist.added # {}

\* createSpace(name, icon) on the file and then deleteSpace of the id it
\* returned leave the primary space list and the primary item list as they
\* were
SpaceRoundTrip(f, name, icon) ==
  LET c == createSpace(f, backups, now, nextId, name, icon, TRUE, "written")
      d == deleteSpace(c.file, c.backups, now, c.id, TRUE, "written")
  IN c.success =>
        /\ d.success
        /\ d.file.doc.spaces = f.doc.spaces
        /\ d.file.doc.items = f.doc.items

\* the same for addTab and deleteTab of the id it returned; the item list
\* holds the child list of the container
TabRoundTrip(f, spaceNameOrId, url, title, pinned) ==
  LET a == addTab(f, backups, now, nextId, spaceNameOrId, url, title, pinned, TRUE, "written")
      d == deleteTab(a.file, a.backups, now, a.id, TRUE, "written")
  IN a.success =>
        /\ d.success
        /\ a.file.doc.items # f.doc.items
        /\ d.file.doc.spaces = f.doc.spaces
        /\ d.file.doc.items = f.doc.items

\* C29: on every document the calls reach, a successful createSpace followed
\* by deleteSpace of the returned id, and a successful addTab followed by
\* deleteTab of the returned id, give back the primary space list and the
\* primary item list, slot for slot.
C29_RoundTrip ==
  Parsable(file) =>
     /\ \A name \in CreateNames, icon \in Icons : SpaceRoundTrip(file, name, icon)
     /\ \A arg \in SpaceArgs(file), url \in Urls, title \in OptionalTitles, pinned \in BOOLEAN :
           TabRoundTrip(file, arg, url, title, pinned)

\* a tab was added and deleted again, then a space was created and deleted
\* again, and the primary lists are those of the first document
C29_Witness ==
  /\ result.op = "deleteSpace" /\ result.success
  /\ \E c \in hist.created : c.spaceId = hist.arg
  /\ \E a \in hist.added : a \in hist.deletedTabs
  /\ file.doc.spaces = WorkDoc("full").spaces
  /\ file.doc.items = WorkDoc("full").items

\* the item list without the slots of target and with the child list of the
\* record parent blanked: what addTab and deleteTab of target must not change
ItemsBeside(items, target, parent) ==
  LET rest == SelectSeq(items, LAMBDA x : x.id # target)
  IN [i \in 1..Len(rest) |->
        IF IsObject(rest[i]) /\ rest[i].id = parent
        THEN [rest[i] EXCEPT !.childrenIds = <<>>]
        ELSE rest[i]]

\* the item records of data with this parent
ChildrenOf(data, parent) ==
  {data.items[i] : i \in {j \in 1..Len(data.items) :
      IsObject(data.items[j]) /\ data.items[j].parentID = parent}}

\* C30: a successful addTab or deleteTab leaves the primary space list, the
\* local ordered-space list, the local space-model mirror, the remote
\* ordered-space list with its stamp and the remote space-model mirror as
\* they were, and of the primary item list changes only the slots of its
\* target and the child list of the target's parent; a successful
\* deleteSpace leaves the record of every other space, the records of their
\* containers and the records parented on these as they were.
C30_FrameKept ==
  [][/\ (result'.op \in {"addTab", "deleteTab"} /\ result'.success) =>
          LET target == IF result'.op = "addTab" THEN result'.id ELSE hist'.arg
              parent == parentOf(IF result'.op = "addTab" THEN file'.doc ELSE file.doc, target)
          IN /\ file'.doc.spaces = file.doc.spaces
             /\ file'.doc.localOrderedSpaceIDs = file.doc.localOrderedSpaceIDs
             /\ file'.doc.localSpaceModels = file.doc.localSpaceModels
             /\ file'.doc.orderedSpaceIDs = file.doc.orderedSpaceIDs
             /\ file'.doc.spaceModels = file.doc.spaceModels
             /\ file'.doc.items # file.doc.items
             /\ ItemsBeside(file'.doc.items, target, parent) = ItemsBeside(file.doc.items, target, parent)
     /\ (result'.op = "deleteSpace" /\ result'.success) =>
          \A sp \in SpaceRecords(file.doc) :
             sp.id \in SpaceIds(file'.doc) =>
                /\ sp \in SpaceRecords(file'.doc)
                /\ \A c \in Range(structuralIds(sp.containerIDs)) :
                      /\ HasItem(file.doc, c) =>
                            (HasItem(file'.doc, c) /\ ItemRecord(file'.doc, c) = ItemRecord(file.doc, c))
                      /\ ChildrenOf(file'.doc, c) = ChildrenOf(file.doc, c)]_vars

\* deleteSpace removed the first space of a document with every ledger and
\* left the space that createSpace had made after a tab was added
C30_Witness ==
  /\ result.op = "deleteSpace" /\ result.success /\ hist.arg = "S0"
  /\ hist.added # {}
  /\ \E c \in hist.created :
        /\ c.spaceId \in SpaceIds(file.doc)
        /\ HasItem(file.doc, c.pinnedId) /\ HasItem(file.doc, c.unpinnedId)
  /\ file.doc.spaceModels.present

\* the longest run of addTab calls looked at
MaxRun == 2

\* the url lists of the runs
UrlRuns == UNION {[1..k -> Urls] : k \in 1..MaxRun}

\* addTab(spaceNameOrId, url, undefined, pinned) called for the urls of a list
\* one after the other, each call on the file the call before it saved: the
\* file left, the identifiers drawn, whether every call succeeded, and the
\* ids returned in the order of the calls
RECURSIVE AddTabsInARow(_, _, _, _)
AddTabsInARow(st, spaceNameOrId, pinned, urls) ==
  IF urls = <<>> THEN st
  ELSE LET o == addTab(st.file, backups, now, st.ids, spaceNameOrId, Head(urls), "", pinned,
                       TRUE, "written")
       IN AddTabsInARow([file |-> o.file, ids |-> st.ids + o.ids, ok |-> st.ok /\ o.success,
                         tabIds |-> Append(st.tabIds, o.id)],
                        spaceNameOrId, pinned, Tail(urls))

\* the pinned or the unpinned list of the nested listTabs
Bucket(data, spaceNameOrId, pinned) ==
  IF pinned THEN listTabsNested(data, spaceNameOrId).pinned
  ELSE listTabsNested(data, spaceNameOrId).unpinned

\* C31 (as claimed): on every document the calls reach, after a run of
\* successful addTab calls into one bucket of one space the nested listing
\* of that bucket is what it was before the run, followed by the new tabs
\* in the order of the calls.
C31_AddTabAppends ==
  Parsable(file) =>
     \A spaceNameOrId \in SpaceArgs(file), pinned \in BOOLEAN, urls \in UrlRuns :
        LET r == AddTabsInARow([file |-> file, ids |-> nextId, ok |-> TRUE, tabIds |-> <<>>],
                               spaceNameOrId, pinned, urls)
        IN r.ok =>
              Bucket(r.file.doc, spaceNameOrId, pinned) =
                 Bucket(file.doc, spaceNameOrId, pinned) \o
                 [k \in 1..Len(urls) |->
                    [kind |-> "tab", id |-> r.tabIds[k], title |-> urls[k], url |-> urls[k],
                     children |-> <<>>]]

\* the ids the addTab calls of a createWorkspace returned with success, in
\* the order of the calls; steps is what its calls returned, createSpace first
SucceededIds(steps) ==
  LET ok == SelectSeq(Tail(steps), LAMBDA x : x.success)
  IN [k \in 1..Len(ok) |-> ok[k].id]

\* the ids of the top-level nodes of a list of trees, in the order of the list
TopIdList(nodes) == [k \in 1..Len(nodes) |-> nodes[k].id]

C33_ListTabsTerminates ==
  (result.op = "listTabs" /\ Parsable(file)) =>
     /\ ~result.thrown
     /\ \A spaceNameOrId \in SpaceArgs(file) : ~listTabsOverflows(file.doc, spaceNameOrId)

\* whether deleteSpace(arg) on data has no structural container to remove:
\* the record it finds has no containerIDs, or markers only
BareTarget(data, arg) ==
  /\ findSpace(data.spaces, arg) # 0
  /\ \A k \in 1..Len(data.spaces[findSpace(data.spaces, arg)].containerIDs) :
        data.spaces[findSpace(data.spaces, arg)].containerIDs[k] \in {"pinned", "unpinned"}

\* C34: a successful deleteSpace on a space whose record has no containerIDs
\* or markers only leaves no token and no record of the space in the primary
\* space list, the local ordered-space list, the local space-model mirror,
\* the remote ordered-space list and the remote space-model mirror, keeps
\* the other slots of these in their order, and leaves the primary item
\* list and the remote item mirror as they were.
C34_BareSpaceDeleted ==
  [][(result'.op = "deleteSpace" /\ result'.success /\ BareTarget(file.doc, hist'.arg)) =>
       LET spaceId == file.doc.spaces[findSpace(file.doc.spaces, hist'.arg)].id
       IN /\ spaceId \in SlotIds(file.doc.spaces)
          /\ file'.doc.spaces = SelectSeq(file.doc.spaces, LAMBDA x : x.id # spaceId)
          /\ file'.doc.localOrderedSpaceIDs.present = file.doc.localOrderedSpaceIDs.present
          /\ file'.doc.localOrderedSpaceIDs.value =
                SelectSeq(file.doc.localOrderedSpaceIDs.value, LAMBDA id : id # spaceId)
          /\ file'.doc.localSpaceModels.present = file.doc.localSpaceModels.present
          /\ file'.doc.localSpaceModels.value =
                SelectSeq(file.doc.localSpaceModels.value,
                          LAMBDA x : (IF IsString(x) THEN x.id ELSE x.value.id) # spaceId)
          /\ file'.doc.orderedSpaceIDs.value =
                SelectSeq(file.doc.orderedSpaceIDs.value, LAMBDA id : id # spaceId)
          /\ file'.doc.spaceModels.present = file.doc.spaceModels.present
          /\ file'.doc.spaceModels.value =
                SelectSeq(file.doc.spaceModels.value, LAMBDA x : x.id # spaceId)
          /\ file'.doc.items = file.doc.items
          /\ file'.doc.syncItems = file.doc.syncItems]_vars

\* deleteSpace removed the space without containerIDs and the space with the
\* markers only from a document with both ledgers, and the items are those
\* of the first document
C34_Witness ==
  /\ result.op = "deleteSpace" /\ result.success
  /\ hist.deletedSpaces = {"S7", "S8"}
  /\ file.doc.spaceModels.present /\ file.doc.localSpaceModels.present
  /\ file.doc.items = WorkItems
  /\ file.doc.syncItems = Present(mirrorOf(WorkItems))
====
